---------------------------- MODULE Spec2Model ----------------------------
(***************************************************************************)
(* Model of the fuzzy / PID temperature-control core of fuzzy-hvac-control *)
(* (src/fuzzy-hvac-control/src): membership functions, linguistic          *)
(* variables, the Mamdani inference engine, the five defuzzifiers, the     *)
(* FuzzyController, the PIDController, the HVACSystem plant and the        *)
(* closed-loop driver simulate_control with its performance metrics.       *)
(*                                                                         *)
(* Numbers.  The program computes with Python floats.  Here a real         *)
(* quantity (temperature, error, power, degree of membership, gain) is an  *)
(* integer count of 1/SCALE units; a product or quotient is rounded to the *)
(* nearest unit, as a float operation is rounded to the nearest float.     *)
(* Simulation time is kept apart (see the TIME section): it is compared    *)
(* for exact equality by the driver, so it is modelled as a binary         *)
(* floating-point number with a short mantissa, which drifts the way the   *)
(* accumulated Python float does.                                          *)
(*                                                                         *)
(* Exceptions.  An operation that may raise returns a record whose field   *)
(* exc is "none" or the name of the Python exception.                      *)
(***************************************************************************)
EXTENDS Integers, Sequences, FiniteSets, TLC

VARIABLES
    \* ---- FuzzyInferenceEngine (fuzzy_rules.py)
    rules,                  \* engine.rules : sequence of FuzzyRule
    implication_method,     \* engine.implication_method
    inf_call,               \* the last call of engine.inference and its outcome
    er_call,                \* the last call of engine.evaluate_rule and its outcome
    \* ---- FuzzyController (fuzzy_system.py)
    input_variables,        \* controller.input_variables : name -> FuzzyVariable
    output_variable,        \* controller.output_variable
    defuzzification_method, \* controller.defuzzification_method
    history,                \* controller.history
    fc_call,                \* the last call of controller.compute and its outcome
    \* ---- a membership function called on its own (membership_functions.py)
    mf_call,                \* the last call of evaluate and its outcome
    \* ---- Defuzzifier called on its own (defuzzification.py)
    dz_universe,            \* the universe array of the call
    dz_membership,          \* the membership array of the call
    dz_call,                \* the method last called and what it returned
    \* ---- PIDController (pid_controller.py, and its copy in fuzzy_system.py)
    Kp, Ki, Kd,             \* the gains
    output_limits,          \* (min, max) of the output
    integral,               \* self.integral
    previous_error,         \* self.previous_error
    previous_time,          \* self.previous_time (never assigned but None)
    pid_history,            \* self.history
    pid_call,               \* the last call of compute and what it returned
    \* ---- HVACSystem (simulation.py, and its copy in fuzzy_system.py)
    temperature,            \* self.temperature
    ambient_temp,           \* self.ambient_temp
    time_constant,          \* self.time_constant
    gain,                   \* self.gain
    plant_history,          \* self.history
    plant_log,              \* the calls made on the plant from outside, in order
    \* ---- one call of simulate_control and of calculate_performance_metrics
    sim_impl,               \* which simulate_control: "fuzzy_system" or "simulation"
    controller,             \* the class of the controller argument
    setpoint, duration, sim_dt,   \* the arguments setpoint, duration, dt
    disturbances,           \* the disturbances argument : time -> delta
    sim_pc,                 \* "idle", "loop", "returned" or "raised"
    sim_time,               \* the local time
    times, temperatures, powers, errors,   \* the local lists
    applied,                \* the add_disturbance calls the call has made
    sim_out,                \* the returned dictionary, or the exception raised
    metrics                 \* what calculate_performance_metrics returned

engineVars == <<rules, implication_method, inf_call, er_call>>
ctrlVars   == <<input_variables, output_variable, defuzzification_method,
                history, fc_call>>
dzVars     == <<dz_universe, dz_membership, dz_call>>
mfVars     == <<mf_call>>
pidParams  == <<Kp, Ki, Kd, output_limits>>
pidState   == <<integral, previous_error, previous_time, pid_history>>
pidVars    == <<pidParams, pidState, pid_call>>
plantParams == <<ambient_temp, time_constant, gain>>
plantVars  == <<temperature, plantParams, plant_history, plant_log>>
simArgs    == <<sim_impl, controller, setpoint, duration, sim_dt,
                disturbances>>
simLocals  == <<sim_pc, sim_time, times, temperatures, powers, errors, applied,
                sim_out>>
simVars    == <<simArgs, simLocals, metrics>>
vars == <<engineVars, ctrlVars, dzVars, mfVars, pidVars, plantVars, simVars>>

-----------------------------------------------------------------------------
(* Fixed-point arithmetic                                                  *)

\* Units per 1.0 of every real quantity.
SCALE == 1000

Min2(x, y) == IF x <= y THEN x ELSE y
Max2(x, y) == IF x >= y THEN x ELSE y
Abs(x)     == IF x >= 0 THEN x ELSE -x

\* n / d rounded to the nearest integer (d # 0).
RoundDiv(n, d) ==
    IF d > 0 THEN (2 * n + d) \div (2 * d)
             ELSE (2 * (-n) + (-d)) \div (2 * (-d))

\* Product and quotient of two fixed-point numbers.
Mul(x, y) == RoundDiv(x * y, SCALE)
Div(x, y) == RoundDiv(x * SCALE, y)

\* A whole number, and a decimal fraction n/d, as fixed-point numbers.
Fx(n)      == n * SCALE
Frac(n, d) == RoundDiv(n * SCALE, d)

\* np.clip(x, lo, hi) == minimum(maximum(x, lo), hi)
Clip(x, lo, hi) == Min2(Max2(x, lo), hi)

RECURSIVE SeqSum(_)
SeqSum(s) == IF s = <<>> THEN 0 ELSE Head(s) + SeqSum(Tail(s))

RECURSIVE SeqMax(_)
SeqMax(s) == IF Len(s) = 1 THEN s[1] ELSE Max2(Head(s), SeqMax(Tail(s)))

RECURSIVE SeqMin(_)
SeqMin(s) == IF Len(s) = 1 THEN s[1] ELSE Min2(Head(s), SeqMin(Tail(s)))

Range(s) == {s[i] : i \in DOMAIN s}

\* The result records of operations that may raise.
Ok(v)        == [exc |-> "none", val |-> v]
Raise(e)     == [exc |-> e, val |-> 0]

-----------------------------------------------------------------------------
(* Membership functions (membership_functions.py)                          *)

TriangularMF(a, b, c)     == [kind |-> "tri",  a |-> a, b |-> b, c |-> c, d |-> c]
TrapezoidalMF(a, b, c, d) == [kind |-> "trap", a |-> a, b |-> b, c |-> c, d |-> d]

\* TriangularMF.evaluate with the end points a and c taken into the edges.
TriangularMF_evaluate_OpenEnds(mf, x) ==
    IF x < mf.a \/ x > mf.c THEN Ok(0)
    ELSE IF mf.a <= x /\ x <= mf.b
         THEN IF mf.b - mf.a = 0 THEN Raise("ZeroDivisionError")
              ELSE Ok(Div(x - mf.a, mf.b - mf.a))
         ELSE IF mf.c - mf.b = 0 THEN Raise("ZeroDivisionError")
              ELSE Ok(Div(mf.c - x, mf.c - mf.b))

\* TriangularMF.evaluate.  The two quotients raise ZeroDivisionError on a
\* zero-width edge, if the branch is ever entered with one.
TriangularMF_evaluate(mf, x) ==
    IF x <= mf.a \/ x >= mf.c THEN Ok(0)
    ELSE IF mf.a < x /\ x <= mf.b
         THEN IF mf.b - mf.a = 0 THEN Raise("ZeroDivisionError")
              ELSE Ok(Div(x - mf.a, mf.b - mf.a))
         ELSE IF mf.c - mf.b = 0 THEN Raise("ZeroDivisionError")
              ELSE Ok(Div(mf.c - x, mf.c - mf.b))

\* TrapezoidalMF.evaluate
TrapezoidalMF_evaluate(mf, x) ==
    IF x <= mf.a \/ x >= mf.d THEN Ok(0)
    ELSE IF mf.a < x /\ x <= mf.b
         THEN IF mf.b - mf.a = 0 THEN Raise("ZeroDivisionError")
              ELSE Ok(Div(x - mf.a, mf.b - mf.a))
         ELSE IF mf.b < x /\ x <= mf.c THEN Ok(SCALE)
         ELSE IF mf.d - mf.c = 0 THEN Raise("ZeroDivisionError")
              ELSE Ok(Div(mf.d - x, mf.d - mf.c))

\* MembershipFunction.evaluate, dispatched on the class of the term.
evaluate(mf, x) ==
    IF mf.kind = "tri" THEN TriangularMF_evaluate(mf, x)
                       ELSE TrapezoidalMF_evaluate(mf, x)


\* class FuzzyVariable: name, universe_range = (lo, hi), terms : name -> MF
FuzzyVariable(name, lo, hi, terms) ==
    [name |-> name, lo |-> lo, hi |-> hi, terms |-> terms]

\* The terms dictionary of a variable to which no term was added.
NoTerms == [t \in {} |-> TriangularMF(0, 0, 0)]

\* FuzzyVariable.add_term: self.terms[term.name] = term
add_term(var, name, mf) ==
    [var EXCEPT !.terms = [t \in DOMAIN var.terms \cup {name} |->
                              IF t = name THEN mf ELSE var.terms[t]]]

\* FuzzyVariable.fuzzify: one degree per registered term, none pruned.
fuzzify(var, crisp_value) ==
    LET ev == [t \in DOMAIN var.terms |-> evaluate(var.terms[t], crisp_value)]
    IN  IF \E t \in DOMAIN ev : ev[t].exc # "none"
        THEN Raise((CHOOSE t \in DOMAIN ev : ev[t].exc # "none").exc)
        ELSE Ok([t \in DOMAIN ev |-> ev[t].val])

\* Grid points of the discretised universe: get_universe(num_points = 1000)
\* in the program, fewer here.
NumPoints == 5

\* np.linspace(lo, hi, num_points), whose last point is hi itself.
linspace(lo, hi, num_points) ==
    [i \in 1..num_points |->
        IF i = num_points /\ num_points > 1 THEN hi
        ELSE lo + RoundDiv((i - 1) * (hi - lo), Max2(num_points - 1, 1))]

\* FuzzyVariable.get_universe
get_universe(var) == linspace(var.lo, var.hi, NumPoints)

-----------------------------------------------------------------------------
(* Rules and the Mamdani inference engine (fuzzy_rules.py)                 *)

\* @dataclass FuzzyRule: antecedents : variable -> term, consequent :
\* (variable, term), weight.
FuzzyRule(antecedents, consequent, weight) ==
    [antecedents |-> antecedents, consequent |-> consequent, weight |-> weight]

SetMin(S) == CHOOSE x \in S : \A y \in S : x <= y

\* evaluate_rule reading an absent variable as degree 0.
evaluate_rule_Lenient(rule, input_memberships) ==
    LET ants == rule.antecedents
        activations ==
            {IF v \in DOMAIN input_memberships
                /\ ants[v] \in DOMAIN input_memberships[v]
             THEN input_memberships[v][ants[v]] ELSE 0 : v \in DOMAIN ants}
    IN  Ok(Mul(IF activations # {} THEN SetMin(activations) ELSE 0, rule.weight))

\* evaluate_rule combining the antecedents by the greatest degree.
evaluate_rule_Or(rule, input_memberships) ==
    LET ants == rule.antecedents
        activations ==
            {IF ants[v] \in DOMAIN input_memberships[v]
             THEN input_memberships[v][ants[v]] ELSE 0 : v \in DOMAIN ants}
    IN  IF \E v \in DOMAIN ants : v \notin DOMAIN input_memberships
        THEN Raise("ValueError")
        ELSE Ok(Mul(IF activations # {}
                    THEN CHOOSE x \in activations : \A y \in activations : x >= y
                    ELSE 0, rule.weight))

\* FuzzyInferenceEngine.evaluate_rule: the firing strength of one rule.
\* A term missing from a supplied variable reads as 0.0 (dict.get).
evaluate_rule(rule, input_memberships) ==
    LET ants == rule.antecedents
        activations ==
            {IF ants[v] \in DOMAIN input_memberships[v]
             THEN input_memberships[v][ants[v]] ELSE 0 : v \in DOMAIN ants}
    IN  IF \E v \in DOMAIN ants : v \notin DOMAIN input_memberships
        THEN Raise("ValueError")
        ELSE LET firing_strength ==
                     IF activations # {} THEN SetMin(activations) ELSE 0
             IN  Ok(Mul(firing_strength, rule.weight))

\* consequent_mf.evaluate(x) for x in universe
ConsequentValues(mf, universe) ==
    LET ev == [i \in DOMAIN universe |-> evaluate(mf, universe[i])]
    IN  IF \E i \in DOMAIN ev : ev[i].exc # "none"
        THEN Raise("ZeroDivisionError")
        ELSE Ok([i \in DOMAIN ev |-> ev[i].val])

\* An implication that cuts by the minimum whatever the method.
Implied_MinOnly(method, values, activation) ==
    [i \in DOMAIN values |-> Min2(values[i], activation)]

\* The implication of one rule: np.minimum(values, activation) or
\* values * activation; an unknown method name behaves as "minimum".
Implied(method, values, activation) ==
    [i \in DOMAIN values |->
        IF method = "product" THEN Mul(values[i], activation)
                              ELSE Min2(values[i], activation)]

\* Mutant of Aggregate: the implied curve overwrites the aggregate.
Aggregate_Overwrite(aggregated, implied) ==
    [i \in DOMAIN aggregated |-> implied[i]]

\* aggregated = np.maximum(aggregated, implied)
Aggregate(aggregated, implied) ==
    [i \in DOMAIN aggregated |-> Max2(aggregated[i], implied[i])]

\* The loop of aggregate_outputs over rule_activations, from `aggregated`.
RECURSIVE AggregateLoop(_, _, _, _, _)
AggregateLoop(rule_activations, output_var, universe, method, aggregated) ==
    IF rule_activations = <<>> THEN Ok(aggregated)
    ELSE LET rule       == Head(rule_activations)[1]
             activation == Head(rule_activations)[2]
             rest       == Tail(rule_activations)
         IN  IF activation > 0
             THEN LET consequent_term == rule.consequent[2]
                  IN  IF consequent_term \notin DOMAIN output_var.terms
                      THEN Raise("KeyError")
                      ELSE LET cv == ConsequentValues(
                                       output_var.terms[consequent_term], universe)
                           IN  IF cv.exc # "none" THEN cv
                               ELSE AggregateLoop(rest, output_var, universe, method,
                                        Aggregate(aggregated,
                                                  Implied(method, cv.val, activation)))
             ELSE AggregateLoop(rest, output_var, universe, method, aggregated)

\* FuzzyInferenceEngine.aggregate_outputs
aggregate_outputs(rule_activations, output_var, method) ==
    LET universe == get_universe(output_var)
    IN  AggregateLoop(rule_activations, output_var, universe, method,
                      [i \in DOMAIN universe |-> 0])

\* The first loop of inference: every rule is evaluated, in list order, and
\* the rules with activation > 0 are kept.
RECURSIVE EvaluateRules(_, _)
EvaluateRules(rs, input_memberships) ==
    IF rs = <<>> THEN Ok(<<>>)
    ELSE LET a == evaluate_rule(Head(rs), input_memberships)
         IN  IF a.exc # "none" THEN a
             ELSE LET rest == EvaluateRules(Tail(rs), input_memberships)
                  IN  IF rest.exc # "none" THEN rest
                      ELSE IF a.val > 0
                           THEN Ok(<<<<Head(rs), a.val>>>> \o rest.val)
                           ELSE rest

\* FuzzyInferenceEngine.inference
inference(rs, method, input_memberships, output_var) ==
    LET rule_activations == EvaluateRules(rs, input_memberships)
    IN  IF rule_activations.exc # "none" THEN rule_activations
        ELSE aggregate_outputs(rule_activations.val, output_var, method)

-----------------------------------------------------------------------------
(* Defuzzifier (defuzzification.py)                                        *)
(* universe and membership are arrays of one length, at least 1.           *)

Last(s) == s[Len(s)]

\* Mutant of Midpoint: the lower bound of the universe is the fallback.
Midpoint_LowerBound(universe) == universe[1]

\* (universe[0] + universe[-1]) / 2
Midpoint(universe) == Div(universe[1] + Last(universe), Fx(2))

\* np.max(membership)
MaxMembership(membership) == SeqMax(membership)

\* The first run of adjacent indices that attain the maximum.
MaxIndices_FirstRun(membership) ==
    LET all   == {i \in DOMAIN membership :
                     membership[i] = MaxMembership(membership)}
        first == SetMin(all)
    IN  {i \in all : \A j \in first..i : j \in all}

\* np.where(membership == max_membership)[0], in increasing order
MaxIndices(membership) ==
    {i \in DOMAIN membership : membership[i] = MaxMembership(membership)}

\* Defuzzifier.centroid
centroid(universe, membership) ==
    LET numerator   == SeqSum([i \in DOMAIN universe |->
                                  Mul(universe[i], membership[i])])
        denominator == SeqSum(membership)
    IN  IF denominator = 0 THEN Midpoint(universe)
        ELSE Div(numerator, denominator)

\* The loop of bisector from index i with the running sum so far:
\* cumulative_area >= half_area, with half_area = total_area / 2, decided
\* without the division.
RECURSIVE BisectorLoop(_, _, _, _, _)
BisectorLoop(universe, membership, total_area, i, cumulative_area) ==
    IF i > Len(membership) THEN Last(universe)
    ELSE IF 2 * (cumulative_area + membership[i]) >= total_area THEN universe[i]
    ELSE BisectorLoop(universe, membership, total_area, i + 1,
                      cumulative_area + membership[i])

\* A bisector that stops where the running sum exceeds half of the total.
bisector_Exceeds(universe, membership) ==
    LET total_area == SeqSum(membership)
        over == {i \in DOMAIN membership :
                    2 * SeqSum(SubSeq(membership, 1, i)) > total_area}
    IN  IF total_area = 0 THEN Midpoint(universe)
        ELSE IF over = {} THEN Last(universe)
        ELSE universe[SetMin(over)]

\* Defuzzifier.bisector
bisector(universe, membership) ==
    LET total_area == SeqSum(membership)
    IN  IF total_area = 0 THEN Midpoint(universe)
        ELSE BisectorLoop(universe, membership, total_area, 1, 0)

\* Defuzzifier.mean_of_maximum
mean_of_maximum(universe, membership) ==
    IF MaxMembership(membership) = 0 THEN Midpoint(universe)
    ELSE LET max_indices == MaxIndices(membership)
         IN  RoundDiv(SeqSum([i \in DOMAIN universe |->
                                 IF i \in max_indices THEN universe[i] ELSE 0]),
                      Cardinality(max_indices))

\* Defuzzifier.smallest_of_maximum
smallest_of_maximum(universe, membership) ==
    IF MaxMembership(membership) = 0 THEN universe[1]
    ELSE universe[SetMin(MaxIndices(membership))]

\* Defuzzifier.largest_of_maximum
largest_of_maximum(universe, membership) ==
    IF MaxMembership(membership) = 0 THEN Last(universe)
    ELSE universe[CHOOSE i \in MaxIndices(membership) :
                     \A j \in MaxIndices(membership) : j <= i]

\* The five strategies by name.
DefuzzMethods == {"centroid", "bisector", "mean_of_maximum",
                  "smallest_of_maximum", "largest_of_maximum"}

\* The Defuzzifier method of the given name.
Strategy(name, universe, membership) ==
    CASE name = "centroid"            -> centroid(universe, membership)
      [] name = "bisector"            -> bisector(universe, membership)
      [] name = "mean_of_maximum"     -> mean_of_maximum(universe, membership)
      [] name = "smallest_of_maximum" -> smallest_of_maximum(universe, membership)
      [] name = "largest_of_maximum"  -> largest_of_maximum(universe, membership)

-----------------------------------------------------------------------------
(* FuzzyController (fuzzy_system.py) and its helpers (controller_utils.py) *)

\* controller_utils.fuzzify_inputs, and step 1 of FuzzyController.compute:
\* every supplied input is fuzzified by the variable of its name.
fuzzify_inputs(ivars, crisp_inputs) ==
    IF \E v \in DOMAIN crisp_inputs : v \notin DOMAIN ivars
    THEN Raise("ValueError")
    ELSE LET fz == [v \in DOMAIN crisp_inputs |-> fuzzify(ivars[v], crisp_inputs[v])]
         IN  IF \E v \in DOMAIN fz : fz[v].exc # "none"
             THEN Raise("ZeroDivisionError")
             ELSE Ok([v \in DOMAIN fz |-> fz[v].val])

\* controller_utils.defuzzify_output: three names are dispatched, every
\* other name falls to the centroid.
defuzzify_output(method, universe, aggregated_output) ==
    IF method = "centroid" THEN centroid(universe, aggregated_output)
    ELSE IF method = "bisector" THEN bisector(universe, aggregated_output)
    ELSE IF method = "mean_of_maximum"
         THEN mean_of_maximum(universe, aggregated_output)
    ELSE centroid(universe, aggregated_output)

\* Step 3 of FuzzyController.compute: the same dispatch, written inline.
compute_defuzzify(method, universe, aggregated_output) ==
    IF method = "centroid" THEN centroid(universe, aggregated_output)
    ELSE IF method = "bisector" THEN bisector(universe, aggregated_output)
    ELSE IF method = "mean_of_maximum"
         THEN mean_of_maximum(universe, aggregated_output)
    ELSE centroid(universe, aggregated_output)

\* FuzzyController.compute up to its return value: exc, the crisp output
\* val, and the locals input_memberships and aggregated_output as far as
\* the call got.
FuzzyController_compute(ivars, ovar, rs, imethod, dmethod, crisp_inputs) ==
    LET input_memberships == fuzzify_inputs(ivars, crisp_inputs)
    IN  IF input_memberships.exc # "none"
        THEN [exc |-> input_memberships.exc, val |-> 0,
              input_memberships |-> <<>>, aggregated_output |-> <<>>]
        ELSE
        LET universe == get_universe(ovar)
            aggregated_output == inference(rs, imethod, input_memberships.val, ovar)
        IN  IF aggregated_output.exc # "none"
            THEN [exc |-> aggregated_output.exc, val |-> 0,
                  input_memberships |-> input_memberships.val,
                  aggregated_output |-> <<>>]
            ELSE [exc |-> "none",
                  val |-> compute_defuzzify(dmethod, universe, aggregated_output.val),
                  input_memberships |-> input_memberships.val,
                  aggregated_output |-> aggregated_output.val]

\* FuzzyController.__init__ and reset_history: the empty history.
EmptyHistory == [inputs |-> <<>>, outputs |-> <<>>, memberships |-> <<>>]

-----------------------------------------------------------------------------
(* PIDController (pid_controller.py; fuzzy_system.py holds the same text)  *)

\* max_integral = output_limits[1] / Ki if Ki != 0 else 1e6
max_integral(ki, limits) ==
    IF ki # 0 THEN Div(limits[2], ki) ELSE Fx(1000000)

\* Mutant of PID_integral: the accumulator is left unclamped.
PID_integral_NoClamp(integ, error, dt, ki, limits) == integ + Mul(error, dt)

\* self.integral += error * dt, then the anti-windup np.clip.
PID_integral(integ, error, dt, ki, limits) ==
    Clip(integ + Mul(error, dt), -max_integral(ki, limits), max_integral(ki, limits))

\* Mutant of PID_output: the sum of the terms is returned unclipped.
PID_output_NoClip(kp, ki, kd, limits, integ, prev_error, error, dt) ==
    Mul(kp, error) + Mul(ki, integ) + Mul(kd, Div(error - prev_error, dt))

\* P + I + D clipped to the output limits; integ is the accumulator after
\* its update, prev_error the error of the call before (never None).
PID_output(kp, ki, kd, limits, integ, prev_error, error, dt) ==
    LET P == Mul(kp, error)
        I == Mul(ki, integ)
        derivative == Div(error - prev_error, dt)
        D == Mul(kd, derivative)
    IN  Clip(P + I + D, limits[1], limits[2])

\* PIDController.__init__ and reset: the empty history.
EmptyPidHistory == [errors |-> <<>>, outputs |-> <<>>, time |-> <<>>]

-----------------------------------------------------------------------------
(* TIME: the float that simulate_control accumulates and compares          *)
(* A time is a count of 2^-TimeFracBits units that has at most MantBits    *)
(* significant bits, as a Python float has 53; a sum is rounded to the     *)
(* nearest such number, ties to even.  Halves and their multiples add      *)
(* exactly; tenths do not, and their running sum drifts off the literal.   *)

\* Bits after the binary point of a time.
TimeFracBits == 11
\* Significant bits of a time.
MantBits == 8

TimeUnit == 2 ^ TimeFracBits

RECURSIVE BitLen(_)
BitLen(x) == IF x = 0 THEN 0 ELSE 1 + BitLen(x \div 2)

\* x >= 0 rounded to MantBits significant bits, ties to even.
RoundMant(x) ==
    LET e == BitLen(x) - MantBits
    IN  IF e <= 0 THEN x
        ELSE LET q  == 2 ^ e
                 lo == (x \div q) * q
                 r  == x - lo
             IN  IF 2 * r < q THEN lo
                 ELSE IF 2 * r > q THEN lo + q
                 ELSE IF (x \div q) % 2 = 0 THEN lo ELSE lo + q

\* time += dt
FAdd(a, b) == RoundMant(a + b)

\* The float of the decimal literal n/d.
TimeLit(n, d) == RoundMant(RoundDiv(n * TimeUnit, d))

\* A time used as a real quantity (error * dt, dT_dt * dt).
ToFx(t) == RoundDiv(t * SCALE, TimeUnit)

-----------------------------------------------------------------------------
(* HVACSystem (simulation.py; fuzzy_system.py holds the same text)         *)

\* update without the exchange with the ambient.
update_Heating(temp, amb, tau, g, power, dt) ==
    temp + Mul(Mul(g, power), ToFx(dt))

\* HVACSystem.update: the temperature after one Euler step,
\* dT_dt = -(T - T_ambient) / time_constant + gain * power.
update(temp, amb, tau, g, power, dt) ==
    LET dT_dt == -Div(temp - amb, tau) + Mul(g, power)
    IN  temp + Mul(dT_dt, ToFx(dt))

\* A disturbance that has not reached the temperature when it is read.
add_disturbance_Late(temp, delta_temp) == temp

\* HVACSystem.add_disturbance
add_disturbance(temp, delta_temp) == temp + delta_temp

\* HVACSystem.__init__ and reset: the history of a fresh plant.
InitialPlantHistory(initial_temp) ==
    [temperature |-> <<initial_temp>>, power |-> <<0>>, time |-> <<0>>]

-----------------------------------------------------------------------------
(* calculate_performance_metrics (metrics.py; fuzzy_system.py holds the    *)
(* same text): the settling time                                           *)

None    == [some |-> FALSE, val |-> 0]
Some(v) == [some |-> TRUE, val |-> v]

\* settled = np.abs(temp - setpoint) <= tolerance, tolerance = 0.02 * setpoint
Settled(temp, sp) ==
    {i \in DOMAIN temp : Abs(temp[i] - sp) <= Mul(Frac(2, 100), sp)}

\* A settling time taken at the last entry into the band.
settling_time_LastEntry(time_array, temp, sp) ==
    LET stay == {i \in Settled(temp, sp) :
                    \A j \in i..Len(temp) : j \in Settled(temp, sp)}
    IN  IF stay # {} THEN Some(time_array[SetMin(stay)]) ELSE None

\* metrics['settling_time']: the time of the first settled sample when all
\* samples from it on are settled, None otherwise.
settling_time(time_array, temp, sp) ==
    IF Settled(temp, sp) # {}
    THEN LET first_settled == SetMin(Settled(temp, sp))
         IN  IF \A i \in first_settled..Len(temp) : i \in Settled(temp, sp)
             THEN Some(time_array[first_settled])
             ELSE None
    ELSE None

-----------------------------------------------------------------------------
(* The linguistic variables and rules the model is run on                  *)

\* create_temperature_variable: Temperatura over (10, 35).
Temperatura ==
    FuzzyVariable("Temperatura", Fx(10), Fx(35),
        "Muy Frio" :> TriangularMF(Fx(10), Fx(10), Fx(15)) @@
        "Frio"     :> TriangularMF(Fx(12), Fx(16), Fx(20)) @@
        "Templado" :> TriangularMF(Fx(18), Fx(22), Fx(26)) @@
        "Caliente" :> TriangularMF(Fx(24), Fx(28), Fx(32)))

\* An Error variable over (-10, 10).  create_error_variable uses GaussianMF
\* terms, whose exp() has no counterpart here; the engine is generic in its
\* variables, and the model runs it on triangular terms of the same names.
ErrorVar ==
    FuzzyVariable("Error", Fx(-10), Fx(10),
        "Negativo" :> TriangularMF(Fx(-6), Fx(-3), Fx(0)) @@
        "Cero"     :> TriangularMF(Fx(-3), Fx(0), Fx(3)) @@
        "Positivo" :> TriangularMF(Fx(0), Fx(3), Fx(6)))

\* create_power_variable: Potencia over (0, 100).
Potencia ==
    FuzzyVariable("Potencia", Fx(0), Fx(100),
        "Muy Baja" :> TrapezoidalMF(Fx(0), Fx(0), Fx(10), Fx(20)) @@
        "Baja"     :> TriangularMF(Fx(15), Fx(30), Fx(45)) @@
        "Media"    :> TriangularMF(Fx(35), Fx(50), Fx(65)) @@
        "Alta"     :> TriangularMF(Fx(55), Fx(70), Fx(85)) @@
        "Muy Alta" :> TrapezoidalMF(Fx(80), Fx(90), Fx(100), Fx(100)))

\* The rules add_rule is called with: well-formed rules in the style of
\* create_hvac_rule_base and create_simplified_rule_base, a half-weight
\* rule, a rule without antecedents, and two rules that name a term no
\* variable has ("Tibio" as antecedent, "Turbo" as consequent).
Rule_FrioNegativo ==
    FuzzyRule("Temperatura" :> "Frio" @@ "Error" :> "Negativo",
              <<"Potencia", "Alta">>, SCALE)
Rule_TempladoCero ==
    FuzzyRule("Temperatura" :> "Templado" @@ "Error" :> "Cero",
              <<"Potencia", "Media">>, SCALE)
Rule_Positivo ==
    FuzzyRule("Error" :> "Positivo", <<"Potencia", "Baja">>, Frac(1, 2))
Rule_Templado ==
    FuzzyRule("Temperatura" :> "Templado", <<"Potencia", "Alta">>, SCALE)
Rule_NoAntecedents ==
    FuzzyRule([v \in {} |-> ""], <<"Potencia", "Media">>, SCALE)
Rule_Tibio ==
    FuzzyRule("Temperatura" :> "Tibio", <<"Potencia", "Media">>, SCALE)
Rule_Turbo ==
    FuzzyRule("Error" :> "Cero", <<"Potencia", "Turbo">>, SCALE)

RuleLib ==
    {Rule_FrioNegativo, Rule_TempladoCero, Rule_Positivo, Rule_Templado,
     Rule_NoAntecedents, Rule_Tibio, Rule_Turbo}

\* Crisp values the inputs are drawn from.
TempVals == {Fx(19), Fx(23)}
ErrVals  == {Fx(-2), Fx(0), Fx(1)}

\* The crisp_inputs dictionaries: both inputs, or Temperatura alone.
CrispInputs ==
    {"Temperatura" :> t @@ "Error" :> e : t \in TempVals, e \in ErrVals}
    \cup {"Temperatura" :> t : t \in TempVals}

InputVars == "Temperatura" :> Temperatura @@ "Error" :> ErrorVar

\* The memberships of a crisp_inputs dictionary over the variables ivars
\* (no term of the model's variables raises).
Memberships(ivars, crisp) ==
    [v \in DOMAIN crisp |-> fuzzify(ivars[v], crisp[v]).val]

-----------------------------------------------------------------------------
(* The engine as a state machine: add_rule and inference                   *)

\* Longest rule list built.
MaxRules == 3

NoCall == [called |-> FALSE]

EngineIdle ==
    /\ rules = <<>>
    /\ implication_method = "minimum"
    /\ inf_call = NoCall
    /\ er_call = NoCall

CtrlIdle ==
    /\ input_variables = InputVars
    /\ output_variable = Potencia
    /\ defuzzification_method = "centroid"
    /\ history = EmptyHistory
    /\ fc_call = NoCall

MfIdle == mf_call = NoCall

DzIdle ==
    /\ dz_universe = <<0>>
    /\ dz_membership = <<0>>
    /\ dz_call = NoCall

PidIdle ==
    /\ Kp = 0 /\ Ki = 0 /\ Kd = 0
    /\ output_limits = <<0, 0>>
    /\ integral = 0
    /\ previous_error = 0
    /\ previous_time = "None"
    /\ pid_history = EmptyPidHistory
    /\ pid_call = NoCall

PlantIdle ==
    /\ temperature = 0
    /\ ambient_temp = 0 /\ time_constant = 0 /\ gain = 0
    /\ plant_history = InitialPlantHistory(0)
    /\ plant_log = <<>>

SimIdle ==
    /\ sim_impl = "simulation"
    /\ controller = "object"
    /\ setpoint = 0 /\ duration = 0 /\ sim_dt = 0
    /\ disturbances = <<>>
    /\ sim_pc = "idle"
    /\ sim_time = 0
    /\ times = <<>> /\ temperatures = <<>> /\ powers = <<>> /\ errors = <<>>
    /\ applied = <<>>
    /\ sim_out = NoCall
    /\ metrics = NoCall

\* FuzzyInferenceEngine.__init__, then the attribute implication_method set
\* to one of its two documented values.
InitEngine ==
    /\ rules = <<>>
    /\ implication_method \in {"minimum", "product"}
    /\ inf_call = NoCall
    /\ er_call = NoCall
    /\ CtrlIdle /\ DzIdle /\ MfIdle /\ PidIdle /\ PlantIdle /\ SimIdle

\* FuzzyInferenceEngine.add_rule
add_rule(rule) ==
    /\ Len(rules) < MaxRules
    /\ rules' = Append(rules, rule)
    /\ UNCHANGED <<implication_method, inf_call, er_call, ctrlVars, dzVars, mfVars, pidVars,
                   plantVars, simVars>>

\* A call engine.inference(input_memberships, output_variable); the call
\* and its outcome are recorded in inf_call.
Inference(input_memberships, output_var) ==
    /\ inf_call' = [called |-> TRUE,
                    rules |-> rules,
                    input_memberships |-> input_memberships,
                    output_variable |-> output_var,
                    out |-> inference(rules, implication_method,
                                      input_memberships, output_var)]
    /\ UNCHANGED <<rules, implication_method, er_call, ctrlVars, dzVars, mfVars, pidVars,
                   plantVars, simVars>>

NextEngine ==
    \/ \E r \in RuleLib : add_rule(r)
    \/ \E c \in CrispInputs : Inference(Memberships(InputVars, c), Potencia)

SpecEngine == InitEngine /\ [][NextEngine]_vars

-----------------------------------------------------------------------------
(* The controller as a state machine: compute and reset_history            *)

\* Longest history kept before reset_history must be called.
MaxHistory == 2

\* The rule bases a controller is constructed on.
RuleBases ==
    { <<Rule_FrioNegativo, Rule_TempladoCero, Rule_Positivo, Rule_Templado>>,
      <<Rule_FrioNegativo, Rule_TempladoCero, Rule_Positivo, Rule_Turbo>> }

\* A variable as constructed, before any add_term.
WithoutTerms(var) == FuzzyVariable(var.name, var.lo, var.hi, NoTerms)

\* The input_variables and output_variable a controller is constructed on:
\* the variables of the experiments, or one of them left without terms.
InputVarChoices ==
    { InputVars,
      "Temperatura" :> WithoutTerms(Temperatura) @@ "Error" :> ErrorVar,
      "Temperatura" :> Temperatura @@ "Error" :> WithoutTerms(ErrorVar) }
OutputVarChoices == {Potencia, WithoutTerms(Potencia)}

\* The crisp_inputs compute is called with: both inputs, Temperatura
\* alone, and a dictionary with a name no variable is registered under.
CtrlInputs ==
    {"Temperatura" :> t @@ "Error" :> e : t \in TempVals, e \in {Fx(0), Fx(1)}}
    \cup {"Temperatura" :> Fx(23)}
    \cup {"Temperatura" :> Fx(23) @@ "Humedad" :> Fx(1)}

\* FuzzyController.__init__ on an engine whose rules were added before.
InitCtrl ==
    /\ rules \in RuleBases
    /\ implication_method \in {"minimum", "product"}
    /\ inf_call = NoCall
    /\ er_call = NoCall
    /\ input_variables \in InputVarChoices
    /\ output_variable \in OutputVarChoices
    /\ defuzzification_method \in DefuzzMethods
    /\ history = EmptyHistory
    /\ fc_call = NoCall
    /\ DzIdle /\ MfIdle /\ PidIdle /\ PlantIdle /\ SimIdle

\* A compute that logs its inputs on entry, before anything can fail.
compute_EarlyLog(crisp_inputs) ==
    LET r == FuzzyController_compute(input_variables, output_variable, rules,
                 implication_method, defuzzification_method, crisp_inputs)
    IN  /\ fc_call' = [called |-> TRUE, crisp_inputs |-> crisp_inputs, out |-> r]
        /\ history' =
              IF r.exc = "none"
              THEN [inputs      |-> Append(history.inputs, crisp_inputs),
                    outputs     |-> Append(history.outputs, r.val),
                    memberships |-> Append(history.memberships, r.input_memberships)]
              ELSE [history EXCEPT !.inputs = Append(@, crisp_inputs)]

\* A compute that feeds its last output back: the mean of the control law
\* and the output the history ends with.
compute_Feedback(crisp_inputs) ==
    LET r == FuzzyController_compute(input_variables, output_variable, rules,
                 implication_method, defuzzification_method, crisp_inputs)
        fed == IF r.exc = "none" /\ history.outputs # <<>>
               THEN [r EXCEPT !.val = RoundDiv(@ + Last(history.outputs), 2)]
               ELSE r
    IN  /\ fc_call' = [called |-> TRUE, crisp_inputs |-> crisp_inputs, out |-> fed]
        /\ history' =
              IF fed.exc = "none"
              THEN [inputs      |-> Append(history.inputs, crisp_inputs),
                    outputs     |-> Append(history.outputs, fed.val),
                    memberships |-> Append(history.memberships, fed.input_memberships)]
              ELSE history

\* FuzzyController.compute(crisp_inputs) on the controller: the history
\* grows only when the call reaches its end.
compute(crisp_inputs) ==
    LET r == FuzzyController_compute(input_variables, output_variable, rules,
                 implication_method, defuzzification_method, crisp_inputs)
    IN  /\ fc_call' = [called |-> TRUE, crisp_inputs |-> crisp_inputs, out |-> r]
        /\ history' =
              IF r.exc = "none"
              THEN [inputs      |-> Append(history.inputs, crisp_inputs),
                    outputs     |-> Append(history.outputs, r.val),
                    memberships |-> Append(history.memberships, r.input_memberships)]
              ELSE history

\* A call controller.compute(crisp_inputs) from outside.
Compute(crisp_inputs) ==
    /\ Len(history.outputs) < MaxHistory
    /\ compute(crisp_inputs)
    /\ UNCHANGED <<engineVars, input_variables, output_variable,
                   defuzzification_method, dzVars, mfVars, pidVars, plantVars, simVars>>

\* FuzzyController.reset_history
reset_history ==
    /\ history' = EmptyHistory
    /\ UNCHANGED <<engineVars, input_variables, output_variable,
                   defuzzification_method, fc_call, dzVars, mfVars, pidVars,
                   plantVars, simVars>>

NextCtrl ==
    \/ \E c \in CtrlInputs : Compute(c)
    \/ reset_history

SpecCtrl == InitCtrl /\ [][NextCtrl]_vars

-----------------------------------------------------------------------------
(* The PID controller as a state machine: compute and reset                *)

\* Longest history kept before reset must be called.
MaxPidHistory == 3

\* Gains and output limits the controller is constructed with; (0, 100)
\* with Kp = 8, Ki = 0.3, Kd = 2 are those of the experiments.
KpVals     == {Fx(8)}
KiVals     == {0, Frac(3, 10), Fx(2)}
KdVals     == {0, Fx(2)}
LimitsVals == {<<Fx(0), Fx(100)>>, <<Fx(-10), Fx(10)>>}

\* Errors and time steps compute is called with.
PidErrors == {Fx(-50), Fx(-2), Fx(0), Fx(2), Fx(50)}
PidDts    == {Frac(1, 2), Fx(1)}

\* PIDController.__init__
InitPID ==
    /\ Kp \in KpVals /\ Ki \in KiVals /\ Kd \in KdVals
    /\ output_limits \in LimitsVals
    /\ integral = 0
    /\ previous_error = 0
    /\ previous_time = "None"
    /\ pid_history = EmptyPidHistory
    /\ pid_call = NoCall
    /\ EngineIdle /\ CtrlIdle /\ DzIdle /\ MfIdle /\ PlantIdle /\ SimIdle

\* A compute that skips the derivative term on the first call, as if
\* previous_error started as None.
PID_compute_SkipFirst(error, dt) ==
    LET integ  == PID_integral(integral, error, dt, Ki, output_limits)
        prev   == IF pid_history.errors = <<>> THEN error ELSE previous_error
        output == PID_output(Kp, Ki, Kd, output_limits, integ, prev, error, dt)
    IN  /\ integral' = integ
        /\ previous_error' = error
        /\ pid_history' = [pid_history EXCEPT
                              !.errors  = Append(@, error),
                              !.outputs = Append(@, output)]
        /\ pid_call' = [called |-> TRUE, error |-> error, dt |-> dt,
                        out |-> output]

\* PIDController.compute(error, dt), dt > 0, on the controller.
PID_compute(error, dt) ==
    LET integ  == PID_integral(integral, error, dt, Ki, output_limits)
        output == PID_output(Kp, Ki, Kd, output_limits, integ, previous_error,
                             error, dt)
    IN  /\ integral' = integ
        /\ previous_error' = error
        /\ pid_history' = [pid_history EXCEPT
                              !.errors  = Append(@, error),
                              !.outputs = Append(@, output)]
        /\ pid_call' = [called |-> TRUE, error |-> error, dt |-> dt,
                        out |-> output]

\* A call controller.compute(error, dt) from outside.
PIDCompute(error, dt) ==
    /\ Len(pid_history.outputs) < MaxPidHistory
    /\ PID_compute(error, dt)
    /\ UNCHANGED <<pidParams, previous_time, engineVars, ctrlVars, dzVars, mfVars,
                   plantVars, simVars>>

\* A reset that empties the history and leaves the accumulator.
PID_reset_KeepIntegral ==
    /\ integral' = integral
    /\ previous_error' = 0
    /\ previous_time' = "None"
    /\ pid_history' = EmptyPidHistory
    /\ UNCHANGED <<pidParams, pid_call, engineVars, ctrlVars, dzVars, mfVars,
                   plantVars, simVars>>

\* PIDController.reset
PID_reset ==
    /\ integral' = 0
    /\ previous_error' = 0
    /\ previous_time' = "None"
    /\ pid_history' = EmptyPidHistory
    /\ UNCHANGED <<pidParams, pid_call, engineVars, ctrlVars, dzVars, mfVars,
                   plantVars, simVars>>

NextPID ==
    \/ \E e \in PidErrors, dt \in PidDts : PIDCompute(e, dt)
    \/ PID_reset

SpecPID == InitPID /\ [][NextPID]_vars

-----------------------------------------------------------------------------
(* simulate_control, in its two implementations, and the metrics taken     *)
(* from what it returns                                                    *)

\* The classes a controller argument can be of: the PIDController of
\* pid_controller.py, the PIDController of fuzzy_system.py, the
\* FuzzyController, an object of another class that has a method
\* compute(inputs), and an object that has none.
PIDClasses        == {"pid_controller.PIDController", "fuzzy_system.PIDController"}
OtherClasses      == {"Thermostat", "object"}
ControllerClasses == PIDClasses \cup {"FuzzyController"} \cup OtherClasses

\* What compute of the class Thermostat returns.
ThermostatPower == Fx(50)

\* The branch the isinstance tests of an implementation take.
Branch(impl, class) ==
    IF impl = "fuzzy_system"
    THEN IF class = "FuzzyController" THEN "fuzzy"
         ELSE IF class = "fuzzy_system.PIDController" THEN "pid"
         ELSE "ValueError"
    ELSE IF class = "pid_controller.PIDController" THEN "pid"
         ELSE "assumed fuzzy"

\* controller.compute({'Temperatura': ..., 'Error': ...}) on a controller
\* that was assumed fuzzy: the FuzzyController computes, a PIDController
\* multiplies Kp by the dictionary, the Thermostat answers, and an object
\* has no compute.
AssumedFuzzy(class) ==
    IF class = "FuzzyController" THEN "fuzzy"
    ELSE IF class \in PIDClasses THEN "TypeError"
    ELSE IF class = "Thermostat" THEN "other"
    ELSE "AttributeError"

\* What the control step of an iteration comes to.
ControlStep(impl, class) ==
    IF Branch(impl, class) = "assumed fuzzy" THEN AssumedFuzzy(class)
    ELSE Branch(impl, class)

NoDisturbances == [k \in {} |-> 0]

\* `time in disturbances`: the keys equal to the current time.
MatchingKeys_Nearby(dist, t) ==
    {k \in DOMAIN dist : Abs(k - t) * 16 < TimeUnit}
MatchingKeys(dist, t) == {k \in DOMAIN dist : k = t}

\* The arguments of Scenario C.
ScenarioC ==
    [setpoint |-> Fx(22), duration |-> TimeLit(100, 1), dt |-> TimeLit(1, 2),
     disturbances |-> NoDisturbances]

\* Disturbance mappings: none; one on a sample time of both steps; one
\* more at 0.7, which no running sum of either step equals; one at the
\* first sample and one after the duration.
DisturbanceChoices ==
    { NoDisturbances,
      TimeLit(1, 2) :> Fx(3),
      TimeLit(1, 2) :> Fx(3) @@ TimeLit(7, 10) :> Fx(-2),
      0 :> Fx(-2) @@ TimeLit(2, 1) :> Fx(3) }

\* Short runs, with a step that adds exactly and one that does not, and a
\* run whose duration is no multiple of the step.
ShortRuns ==
    { [setpoint |-> Fx(22), duration |-> TimeLit(1, 1), dt |-> d,
       disturbances |-> ds] :
          d \in {TimeLit(1, 2), TimeLit(1, 10)}, ds \in DisturbanceChoices }
    \cup
    { [setpoint |-> Fx(22), duration |-> TimeLit(5, 4), dt |-> TimeLit(1, 2),
       disturbances |-> NoDisturbances] }

\* The rule base of the controller the simulation runs.
HvacRules ==
    <<Rule_FrioNegativo, Rule_TempladoCero, Rule_Positivo, Rule_Templado>>

\* The controller and the plant as constructed, and the arguments of the
\* call of simulate_control to come.
InitSim ==
    /\ sim_impl \in {"fuzzy_system", "simulation"}
    /\ controller \in ControllerClasses
    /\ \E run \in {ScenarioC} \cup ShortRuns :
          /\ setpoint = run.setpoint
          /\ duration = run.duration
          /\ sim_dt = run.dt
          /\ disturbances = run.disturbances
    \* PIDController(Kp=8.0, Ki=0.3, Kd=2.0, output_limits=(0, 100))
    /\ Kp = Fx(8) /\ Ki = Frac(3, 10) /\ Kd = Fx(2)
    /\ output_limits = <<Fx(0), Fx(100)>>
    /\ integral = 0 /\ previous_error = 0 /\ previous_time = "None"
    /\ pid_history = EmptyPidHistory
    /\ pid_call = NoCall
    \* FuzzyController(input_variables, output_variable, engine, 'centroid')
    /\ rules = HvacRules
    /\ implication_method = "minimum"
    /\ inf_call = NoCall
    /\ er_call = NoCall
    /\ CtrlIdle
    \* HVACSystem(initial_temp=20.0, ambient_temp=30.0, time_constant=5.0,
    \*            gain=0.01)
    /\ temperature = Fx(20)
    /\ ambient_temp = Fx(30) /\ time_constant = Fx(5) /\ gain = Frac(1, 100)
    /\ plant_history = InitialPlantHistory(Fx(20))
    /\ plant_log = <<>>
    /\ sim_pc = "idle"
    /\ sim_time = 0
    /\ times = <<>> /\ temperatures = <<>> /\ powers = <<>> /\ errors = <<>>
    /\ applied = <<>>
    /\ sim_out = NoCall
    /\ metrics = NoCall
    /\ DzIdle /\ MfIdle

\* The loop entered only before the duration is reached.
LoopCondition_Strict(t, dur) == t < dur

\* while time <= duration
LoopCondition(t, dur) == t <= dur

\* simulate_control up to its loop: disturbances defaulted, time = 0.0 and
\* the four lists empty.
SimCall ==
    /\ sim_pc = "idle"
    /\ sim_pc' = "loop"
    /\ sim_time' = 0
    /\ times' = <<>> /\ temperatures' = <<>> /\ powers' = <<>> /\ errors' = <<>>
    /\ UNCHANGED <<applied, sim_out, simArgs, metrics, plantVars, engineVars,
                   ctrlVars, dzVars, mfVars, pidVars>>

\* A first run has returned and no second one was started: the plant has
\* been stepped as often as the result has samples.
FirstRunOnly ==
    /\ sim_pc = "returned"
    /\ Len(plant_history.power) = Len(sim_out.time) + 1

\* A second call that first resets the controller and the plant.
SimAgain_Reset ==
    /\ FirstRunOnly
    /\ sim_pc' = "loop"
    /\ sim_time' = 0
    /\ times' = <<>> /\ temperatures' = <<>> /\ powers' = <<>> /\ errors' = <<>>
    /\ temperature' = Fx(20)
    /\ plant_history' = InitialPlantHistory(Fx(20))
    /\ integral' = 0 /\ previous_error' = 0
    /\ pid_history' = EmptyPidHistory
    /\ history' = EmptyHistory
    /\ UNCHANGED <<applied, sim_out, simArgs, metrics, plantParams, plant_log,
                   engineVars, input_variables, output_variable,
                   defuzzification_method, fc_call, dzVars, mfVars, pidParams,
                   previous_time, pid_call>>

\* simulate_control called again with the controller and the plant of the
\* run that returned, and the same arguments: time = 0.0 and the four
\* lists empty; nothing of the controller or the plant is touched.
SimAgain ==
    /\ FirstRunOnly
    /\ sim_pc' = "loop"
    /\ sim_time' = 0
    /\ times' = <<>> /\ temperatures' = <<>> /\ powers' = <<>> /\ errors' = <<>>
    /\ UNCHANGED <<applied, sim_out, simArgs, metrics, plantVars, engineVars,
                   ctrlVars, dzVars, mfVars, pidVars>>

\* One pass of `while time <= duration`: the disturbance due now, the
\* error, the control step, the plant update, the four appends and
\* time += dt.  An exception of the control step leaves the function with
\* the disturbance applied and nothing recorded.
SimIteration ==
    /\ sim_pc = "loop"
    /\ LoopCondition(sim_time, duration)
    /\ LET keys         == MatchingKeys(disturbances, sim_time)
           key          == CHOOSE k \in keys : TRUE
           current_temp == IF keys # {}
                           THEN add_disturbance(temperature, disturbances[key])
                           ELSE temperature
           error        == setpoint - current_temp
           step         == ControlStep(sim_impl, controller)
           crisp        == "Temperatura" :> current_temp @@ "Error" :> error
           fz           == FuzzyController_compute(input_variables,
                               output_variable, rules, implication_method,
                               defuzzification_method, crisp)
           integ        == PID_integral(integral, error, ToFx(sim_dt), Ki,
                                        output_limits)
           power        == CASE step = "pid" ->
                                  Ok(PID_output(Kp, Ki, Kd, output_limits, integ,
                                         previous_error, error, ToFx(sim_dt)))
                             [] step = "fuzzy" ->
                                  IF fz.exc = "none" THEN Ok(fz.val)
                                  ELSE Raise(fz.exc)
                             [] step = "other" -> Ok(ThermostatPower)
                             [] OTHER -> Raise(step)
       IN  /\ applied' = IF keys # {}
                         THEN Append(applied, [time |-> sim_time, key |-> key,
                                               delta |-> disturbances[key]])
                         ELSE applied
           /\ CASE step = "pid" ->
                     /\ PID_compute(error, ToFx(sim_dt))
                     /\ UNCHANGED <<previous_time, history, fc_call>>
                [] step = "fuzzy" ->
                     /\ compute(crisp)
                     /\ UNCHANGED <<pidState, pid_call>>
                [] OTHER -> UNCHANGED <<history, fc_call, pidState, pid_call>>
           /\ IF power.exc = "none"
              THEN /\ temperature' = update(current_temp, ambient_temp,
                                          time_constant, gain, power.val, sim_dt)
                   /\ plant_history' =
                         [temperature |-> Append(plant_history.temperature,
                                                 temperature'),
                          power       |-> Append(plant_history.power, power.val),
                          time        |-> Append(plant_history.time,
                                            FAdd(Last(plant_history.time), sim_dt))]
                   /\ times' = Append(times, sim_time)
                   /\ temperatures' = Append(temperatures, current_temp)
                   /\ powers' = Append(powers, power.val)
                   /\ errors' = Append(errors, error)
                   /\ sim_time' = FAdd(sim_time, sim_dt)
                   /\ UNCHANGED <<sim_pc, sim_out>>
              ELSE /\ temperature' = current_temp
                   /\ sim_pc' = "raised"
                   /\ sim_out' = [called |-> TRUE, exc |-> power.exc]
                   /\ UNCHANGED <<plant_history, times, temperatures, powers,
                                  errors, sim_time>>
    /\ UNCHANGED <<simArgs, metrics, plantParams, plant_log, engineVars, input_variables,
                   output_variable, defuzzification_method, dzVars, mfVars, pidParams>>

\* A return that adds the temperature the last update left to the
\* temperature array.
SimReturn_WithFinal ==
    /\ sim_pc = "loop"
    /\ ~LoopCondition(sim_time, duration)
    /\ sim_pc' = "returned"
    /\ sim_out' = [called |-> TRUE, exc |-> "none", time |-> times,
                   temperature |-> Append(temperatures, temperature),
                   power |-> powers, error |-> errors, setpoint |-> setpoint]
    /\ UNCHANGED <<sim_time, times, temperatures, powers, errors, applied,
                   simArgs, metrics, plantVars, engineVars, ctrlVars, dzVars, mfVars,
                   pidVars>>

\* The loop left: the dictionary of the four arrays and the setpoint.
SimReturn ==
    /\ sim_pc = "loop"
    /\ ~LoopCondition(sim_time, duration)
    /\ sim_pc' = "returned"
    /\ sim_out' = [called |-> TRUE, exc |-> "none", time |-> times,
                   temperature |-> temperatures, power |-> powers,
                   error |-> errors, setpoint |-> setpoint]
    /\ UNCHANGED <<sim_time, times, temperatures, powers, errors, applied,
                   simArgs, metrics, plantVars, engineVars, ctrlVars, dzVars, mfVars,
                   pidVars>>

\* calculate_performance_metrics(results) on the returned dictionary.
CalcMetrics ==
    /\ sim_pc = "returned"
    /\ metrics = NoCall
    /\ metrics' = [called |-> TRUE,
                   settling_time |-> settling_time(sim_out.time,
                                        sim_out.temperature, sim_out.setpoint)]
    /\ UNCHANGED <<simArgs, simLocals, plantVars, engineVars, ctrlVars, dzVars, mfVars,
                   pidVars>>

NextSim ==
    \/ SimCall
    \/ SimIteration
    \/ SimReturn
    \/ CalcMetrics

SpecSim == InitSim /\ [][NextSim]_vars

-----------------------------------------------------------------------------
(* Claims about the inference engine                                       *)

Perms(n) == {p \in [1..n -> 1..n] : \A i, j \in 1..n : p[i] = p[j] => i = j}
Permute(s, p) == [i \in 1..Len(s) |-> s[p[i]]]

\* The rules of a list that fire on the given memberships.
Fired(rs, input_memberships) ==
    {i \in 1..Len(rs) :
        LET a == evaluate_rule(rs[i], input_memberships)
        IN  a.exc = "none" /\ a.val > 0}

\* C1: whenever inference returned a curve, inference over every
\* permutation of the rule list, on the same input memberships and output
\* variable and under the same implication method, returns that same curve
\* point for point.
C1_PermutationInvariant ==
    (inf_call.called /\ inf_call.out.exc = "none") =>
        \A p \in Perms(Len(inf_call.rules)) :
            inference(Permute(inf_call.rules, p), implication_method,
                      inf_call.input_memberships, inf_call.output_variable)
                = inf_call.out

\* C1 witness: under "product", a returned curve built from at least two
\* fired rules with different consequents.
C1_Witness ==
    /\ inf_call.called
    /\ inf_call.out.exc = "none"
    /\ implication_method = "product"
    /\ \E i, j \in Fired(inf_call.rules, inf_call.input_memberships) :
          inf_call.rules[i].consequent # inf_call.rules[j].consequent
    /\ \E k \in DOMAIN inf_call.out.val : inf_call.out.val[k] > 0

-----------------------------------------------------------------------------
(* The Defuzzifier called on its own                                       *)

\* Degrees the membership arrays are filled with.
DegreeVals == {0, Frac(1, 4), Frac(1, 2), SCALE}

\* The universe arrays: the grids of the three variables, a single point
\* and an uneven increasing grid.
Grids ==
    {get_universe(Temperatura), get_universe(ErrorVar), get_universe(Potencia),
     <<Fx(3)>>, <<Fx(0), Fx(1), Fx(5)>>}

InitDefuzz ==
    /\ dz_universe \in Grids
    /\ dz_membership \in [DOMAIN dz_universe -> DegreeVals]
    /\ dz_call = NoCall
    /\ EngineIdle /\ CtrlIdle /\ MfIdle /\ PidIdle /\ PlantIdle /\ SimIdle

\* A call Defuzzifier.<method>(universe, membership)
Defuzzify(method) ==
    /\ dz_call' = [called |-> TRUE, method |-> method,
                   out |-> Strategy(method, dz_universe, dz_membership)]
    /\ UNCHANGED <<dz_universe, dz_membership, engineVars, ctrlVars, mfVars, pidVars,
                   plantVars, simVars>>

NextDefuzz == \E m \in DefuzzMethods : Defuzzify(m)

SpecDefuzz == InitDefuzz /\ [][NextDefuzz]_vars

AllZero(membership) == \A i \in DOMAIN membership : membership[i] = 0

\* C2: on a membership curve that is zero at every point, centroid, bisector
\* and mean_of_maximum return the midpoint (universe[0] + universe[-1]) / 2,
\* smallest_of_maximum returns universe[0] and largest_of_maximum returns
\* universe[-1].
C2_ZeroCurveFallback ==
    (dz_call.called /\ AllZero(dz_membership)) =>
        LET first == dz_universe[1]
            last  == dz_universe[Len(dz_universe)]
        IN  /\ dz_call.method \in {"centroid", "bisector", "mean_of_maximum"}
                  => dz_call.out = RoundDiv(first + last, 2)
            /\ dz_call.method = "smallest_of_maximum" => dz_call.out = first
            /\ dz_call.method = "largest_of_maximum" => dz_call.out = last

\* C2 witness: bisector was called on an all-zero curve over a grid of
\* several points.
C2_Witness ==
    /\ dz_call.called
    /\ AllZero(dz_membership)
    /\ dz_call.method = "bisector"
    /\ Len(dz_universe) > 1
    /\ dz_universe[1] # dz_universe[Len(dz_universe)]

-----------------------------------------------------------------------------
(* Claims about the FuzzyController and about missing names                *)

\* C3: a call of compute that returns, returns what the Defuzzifier
\* strategy named by defuzzification_method gives on the aggregated curve,
\* for each of the five strategy names.
C3_ConfiguredStrategy ==
    (fc_call.called /\ fc_call.out.exc = "none") =>
        fc_call.out.val = Strategy(defuzzification_method,
                                   get_universe(output_variable),
                                   fc_call.out.aggregated_output)

\* A rule names a term that is missing: an antecedent term absent from the
\* memberships of its (supplied) variable, or a consequent term absent from
\* the output variable.
MissingTerm(rule, input_memberships, output_var) ==
    \/ \E v \in DOMAIN rule.antecedents \cap DOMAIN input_memberships :
          rule.antecedents[v] \notin DOMAIN input_memberships[v]
    \/ rule.consequent[2] \notin DOMAIN output_var.terms

\* C9: inference over a rule list holding a rule with a missing antecedent
\* or consequent term raises an error, on every input.
C9_MissingTermRaises ==
    (/\ inf_call.called
     /\ \E i \in 1..Len(inf_call.rules) :
           MissingTerm(inf_call.rules[i], inf_call.input_memberships,
                       inf_call.output_variable))
        => inf_call.out.exc # "none"

\* C10: compute on a controller one of whose variables (input or output)
\* has no registered term fails instead of returning a crisp output.
C10_ZeroTermsFails ==
    (/\ fc_call.called
     /\ \/ \E v \in DOMAIN input_variables : DOMAIN input_variables[v].terms = {}
        \/ DOMAIN output_variable.terms = {})
        => fc_call.out.exc # "none"

-----------------------------------------------------------------------------
(* Claims about the PID controller                                         *)

\* C4: with Ki > 0 and output_max >= 0 the accumulator stays within
\* -output_max / Ki .. output_max / Ki after every compute call.
C4_IntegralBounded ==
    (Ki > 0 /\ output_limits[2] >= 0) =>
        /\ integral <= RoundDiv(output_limits[2] * SCALE, Ki)
        /\ integral >= -RoundDiv(output_limits[2] * SCALE, Ki)

\* C4 witness: a second compute call in a row with the large positive
\* error, after which the accumulator sits on its bound output_max / Ki.
C4_Witness ==
    /\ Ki > 0
    /\ Len(pid_history.errors) >= 2
    /\ \A i \in DOMAIN pid_history.errors : pid_history.errors[i] = Fx(50)
    /\ integral = RoundDiv(output_limits[2] * SCALE, Ki)

\* C5: every value compute returns lies in [output_min, output_max].
C5_OutputWithinLimits ==
    pid_call.called =>
        /\ output_limits[1] <= pid_call.out
        /\ pid_call.out <= output_limits[2]

\* C5 witness: a second compute call whose proportional term alone exceeds
\* output_max, and which returned output_max.
C5_Witness ==
    /\ pid_call.called
    /\ Len(pid_history.outputs) >= 2
    /\ Mul(Kp, pid_call.error) > output_limits[2]
    /\ pid_call.out = output_limits[2]

-----------------------------------------------------------------------------
(* Claims about simulate_control                                           *)

\* The call is that of Scenario C: the PID controller with Kp = 8, Ki = 0.3,
\* Kd = 2 and limits (0, 100) taken as a PID controller, the plant starting
\* at 20 with ambient 30, time constant 5 and gain 0.01, setpoint 22,
\* duration 100, dt 0.5 and no disturbances.
IsScenarioC ==
    /\ ControlStep(sim_impl, controller) = "pid"
    /\ Kp = Fx(8) /\ Ki = Frac(3, 10) /\ Kd = Fx(2)
    /\ output_limits = <<Fx(0), Fx(100)>>
    /\ plant_history.temperature[1] = Fx(20)
    /\ ambient_temp = Fx(30) /\ time_constant = Fx(5) /\ gain = Frac(1, 100)
    /\ setpoint = ScenarioC.setpoint
    /\ duration = ScenarioC.duration
    /\ sim_dt = ScenarioC.dt
    /\ disturbances = ScenarioC.disturbances

\* C6: once Scenario C has run and its metrics are taken, the settling
\* time is not None: the temperature reached the band of 0.44 around 22 and
\* every later sample stayed in it.
C6_ScenarioCSettles ==
    (IsScenarioC /\ metrics.called) => metrics.settling_time.some

\* C7: add_disturbance is called only in an iteration whose time equals a
\* key, with the delta of that key, and at most once for a key; every
\* sample whose time is a key records the temperature the previous update
\* left plus that delta, every other sample records that temperature as it
\* is; a key that is no sample time is never applied.
C7_DisturbanceExactlyAtKeys ==
    /\ \A c \in DOMAIN applied :
          /\ applied[c].key \in DOMAIN disturbances
          /\ applied[c].key = applied[c].time
          /\ applied[c].delta = disturbances[applied[c].key]
          /\ \/ \E i \in DOMAIN times : times[i] = applied[c].time
             \/ sim_pc = "raised" /\ applied[c].time = sim_time
    /\ \A a, b \in DOMAIN applied :
          a # b => applied[a].key # applied[b].key
    /\ \A i \in DOMAIN times :
          LET due == times[i] \in DOMAIN disturbances
          IN  /\ due <=> \E c \in DOMAIN applied : applied[c].time = times[i]
              /\ temperatures[i] =
                    plant_history.temperature[i]
                    + (IF due THEN disturbances[times[i]] ELSE 0)

\* C7 witness: a returned run in which a delta other than zero was applied
\* at a sample after the first, which records the temperature the previous
\* update left plus the delta, and in which a key that the running sum of
\* the steps comes close to without equalling was passed over.
C7_Witness ==
    /\ sim_pc = "returned"
    /\ \E c \in DOMAIN applied, i \in DOMAIN times :
          /\ i > 1
          /\ applied[c].delta # 0
          /\ times[i] = applied[c].key
          /\ temperatures[i] = plant_history.temperature[i] + applied[c].delta
    /\ \E k \in DOMAIN disturbances :
          /\ \E i \in DOMAIN times : Abs(times[i] - k) * 16 < TimeUnit
          /\ \A i \in DOMAIN times : times[i] # k
          /\ \A c \in DOMAIN applied : applied[c].key # k

\* C8: with a controller that is neither a PIDController nor a
\* FuzzyController, simulate_control records no sample and never returns,
\* in either implementation.
C8_UnknownControllerRaises ==
    controller \in OtherClasses =>
        /\ times = <<>>
        /\ sim_pc # "returned"

-----------------------------------------------------------------------------
(* evaluate_rule called on its own                                         *)

\* Weights a rule is given.
RuleWeights == {0, Frac(1, 2), SCALE}

\* The rules evaluate_rule is called with: those of RuleLib under each
\* weight.
EvalRules == {[r EXCEPT !.weight = w] : r \in RuleLib, w \in RuleWeights}

\* The input memberships it is called with: those of both variables, of
\* Temperatura alone, of Error alone, and the empty dictionary.
EvalInputs ==
    {Memberships(InputVars, c) : c \in CrispInputs}
    \cup {Memberships(InputVars, "Error" :> e) : e \in ErrVals}
    \cup {[v \in {} |-> 0]}

InitRule ==
    /\ EngineIdle /\ CtrlIdle /\ DzIdle /\ MfIdle /\ PidIdle /\ PlantIdle /\ SimIdle

\* A call engine.evaluate_rule(rule, input_memberships).
EvaluateRule(rule, input_memberships) ==
    /\ er_call' = [called |-> TRUE, rule |-> rule,
                   input_memberships |-> input_memberships,
                   out |-> evaluate_rule(rule, input_memberships)]
    /\ UNCHANGED <<rules, implication_method, inf_call, ctrlVars, dzVars, mfVars,
                   pidVars, plantVars, simVars>>

NextRule == \E r \in EvalRules, m \in EvalInputs : EvaluateRule(r, m)

SpecRule == InitRule /\ [][NextRule]_vars

\* The antecedent variables of the rule of the call that the supplied
\* memberships lack.
AbsentVariables ==
    {v \in DOMAIN er_call.rule.antecedents :
        v \notin DOMAIN er_call.input_memberships}

\* C11: a call of evaluate_rule on a rule with an antecedent on a variable
\* that the supplied memberships lack raises an error and returns no
\* firing strength.
C11_AbsentVariableRaises ==
    (er_call.called /\ AbsentVariables # {}) => er_call.out.exc # "none"

\* C11 witness: a call on a rule of two antecedents of which one variable
\* is supplied, with a degree above zero for the required term, and the
\* other is absent.
C11_Witness ==
    /\ er_call.called
    /\ AbsentVariables # {}
    /\ \E v \in DOMAIN er_call.rule.antecedents :
          /\ v \in DOMAIN er_call.input_memberships
          /\ er_call.rule.antecedents[v] \in DOMAIN er_call.input_memberships[v]
          /\ er_call.input_memberships[v][er_call.rule.antecedents[v]] > 0
    /\ er_call.rule.weight > 0

\* The degrees of the required terms of the rule of the call, when every
\* antecedent variable and term is supplied.
AllSupplied ==
    \A v \in DOMAIN er_call.rule.antecedents :
        /\ v \in DOMAIN er_call.input_memberships
        /\ er_call.rule.antecedents[v] \in DOMAIN er_call.input_memberships[v]
RequiredDegrees ==
    {er_call.input_memberships[v][er_call.rule.antecedents[v]] :
        v \in DOMAIN er_call.rule.antecedents}

\* C20: a call of evaluate_rule on a rule whose antecedents are all
\* supplied returns the least of the degrees of the required terms times
\* the weight of the rule; on a rule without antecedents it returns 0
\* whatever the weight.
C20_MinTimesWeight ==
    (er_call.called /\ AllSupplied) =>
        /\ er_call.out.exc = "none"
        /\ IF DOMAIN er_call.rule.antecedents = {}
           THEN er_call.out.val = 0
           ELSE /\ \A g \in RequiredDegrees :
                      er_call.out.val <= Mul(g, er_call.rule.weight)
                /\ \E g \in RequiredDegrees :
                      er_call.out.val = Mul(g, er_call.rule.weight)

\* C20 witness: a half-weight call on a rule of two antecedents whose
\* degrees differ and are both above zero.
C20_Witness ==
    /\ er_call.called
    /\ AllSupplied
    /\ er_call.rule.weight = Frac(1, 2)
    /\ Cardinality(RequiredDegrees) = 2
    /\ \A g \in RequiredDegrees : g > 0
    /\ er_call.out.val > 0

\* C20 second witness: a rule without antecedents and with weight 1 that
\* returned 0.
C20_WitnessNoAntecedents ==
    /\ er_call.called
    /\ DOMAIN er_call.rule.antecedents = {}
    /\ er_call.rule.weight = SCALE
    /\ er_call.out = Ok(0)

-----------------------------------------------------------------------------
(* A membership function called on its own                                 *)

\* Breakpoints of the terms evaluated: those of "Muy Frio" (10, 10, 15)
\* and one between them.
BreakPoints == {Fx(10), Fx(12), Fx(15)}

\* Every triangle and trapezoid with non-decreasing breakpoints, those with
\* zero-width edges among them.
Triangles ==
    {TriangularMF(a, b, c) : a, b, c \in BreakPoints} \cap
    {mf \in [kind : {"tri"}, a : BreakPoints, b : BreakPoints,
             c : BreakPoints, d : BreakPoints] : mf.a <= mf.b /\ mf.b <= mf.c}
Trapezoids ==
    {mf \in [kind : {"trap"}, a : BreakPoints, b : BreakPoints,
             c : BreakPoints, d : BreakPoints] :
        mf.a <= mf.b /\ mf.b <= mf.c /\ mf.c <= mf.d}

\* The points evaluated: the breakpoints, points between them and points
\* outside.
EvalPoints ==
    BreakPoints \cup {Fx(9), Fx(11), Frac(27, 2), Fx(16)}

InitMF ==
    /\ mf_call = NoCall
    /\ EngineIdle /\ CtrlIdle /\ DzIdle /\ PidIdle /\ PlantIdle /\ SimIdle

\* A call mf.evaluate(x).
Evaluate(mf, x) ==
    /\ mf_call' = [called |-> TRUE, mf |-> mf, x |-> x, out |-> evaluate(mf, x)]
    /\ UNCHANGED <<engineVars, ctrlVars, dzVars, pidVars, plantVars, simVars>>

NextMF == \E mf \in Triangles \cup Trapezoids, x \in EvalPoints : Evaluate(mf, x)

SpecMF == InitMF /\ [][NextMF]_vars

\* C12: a call of evaluate on a triangle returns 0 at every x outside the
\* open interval (a, c), and 1 at x = b.
C12_TriangleSupportAndPeak ==
    (mf_call.called /\ mf_call.mf.kind = "tri") =>
        /\ (mf_call.x <= mf_call.mf.a \/ mf_call.x >= mf_call.mf.c)
              => mf_call.out = Ok(0)
        /\ mf_call.x = mf_call.mf.b => mf_call.out = Ok(SCALE)

\* C13: a call of evaluate raises nothing and returns a degree in [0, 1];
\* at a zero-width rising edge the degree is 0 up to the edge and that of
\* the plateau or falling edge right after it, at a zero-width falling edge
\* it is that of the plateau or rising edge right before it and 0 from the
\* edge on.
C13_TotalBoundedStep ==
    mf_call.called =>
        LET mf == mf_call.mf
            x  == mf_call.x
            v  == mf_call.out.val
        IN  /\ mf_call.out.exc = "none"
            /\ 0 <= v /\ v <= SCALE
            /\ (mf.a = mf.b /\ x <= mf.a) => v = 0
            /\ (mf.c = mf.d /\ x >= mf.d) => v = 0
            /\ (mf.kind = "trap" /\ mf.a = mf.b /\ mf.a < x /\ x <= mf.c
                                  /\ x < mf.d)
                  => v = SCALE
            /\ (mf.kind = "trap" /\ mf.c = mf.d /\ mf.b < x /\ x < mf.d)
                  => v = SCALE
            /\ (mf.kind = "tri" /\ mf.a = mf.b /\ mf.a < x /\ x < mf.c)
                  => v = Div(mf.c - x, mf.c - mf.b)
            /\ (mf.kind = "tri" /\ mf.b = mf.c /\ mf.a < x /\ x < mf.c)
                  => v = Div(x - mf.a, mf.b - mf.a)

\* C13 witness: a call at the edge itself of a term whose three or four
\* breakpoints coincide.
C13_Witness ==
    /\ mf_call.called
    /\ mf_call.mf.a = mf_call.mf.d
    /\ mf_call.x = mf_call.mf.a
    /\ mf_call.out = Ok(0)

-----------------------------------------------------------------------------
(* Scenario B: the centroid of one fully activated symmetric triangle      *)

\* Peaks, half-widths of the triangle and half-widths of the universe; 50,
\* 15 and 50 are those of "Media" over Potencia.
SymPeaks      == {Fx(50), Fx(22), Fx(70)}
SymWidths     == {Fx(15), Fx(10), Fx(4)}
SymHalfRanges == {Fx(50), Fx(20)}

\* Grid sizes: that of get_universe and the grid refined once.
SymSizes == {NumPoints, 2 * NumPoints - 1}

\* The output variable with the one term "Media" peaking at p.
SymVariable(p, w, h) ==
    FuzzyVariable("Potencia", p - h, p + h,
                  "Media" :> TriangularMF(p - w, p, p + w))

\* aggregate_outputs for the one rule THEN Potencia es Media, activated
\* with strength 1.0, over a grid of n points.
SymCurve(p, w, h, n) ==
    AggregateLoop(<< <<Rule_NoAntecedents, SCALE>> >>, SymVariable(p, w, h),
                  linspace(p - h, p + h, n), "minimum",
                  [i \in 1..n |-> 0]).val

InitSymmetric ==
    /\ \E p \in SymPeaks, w \in SymWidths, h \in SymHalfRanges, n \in SymSizes :
          /\ dz_universe = linspace(p - h, p + h, n)
          /\ dz_membership = SymCurve(p, w, h, n)
    /\ dz_call = NoCall
    /\ EngineIdle /\ CtrlIdle /\ MfIdle /\ PidIdle /\ PlantIdle /\ SimIdle

SpecSymmetric == InitSymmetric /\ [][NextDefuzz]_vars

\* The universe and the curve of the state mirror about the point p.
SymmetricAbout(p) ==
    \A i \in DOMAIN dz_universe :
        LET j == Len(dz_universe) + 1 - i
        IN  /\ dz_universe[i] + dz_universe[j] = 2 * p
            /\ dz_membership[i] = dz_membership[j]

\* C14: the centroid of a curve that mirrors about p over a grid that
\* mirrors about p, and that is not zero everywhere, is exactly p.
C14_SymmetricCentroidExact ==
    \A p \in SymPeaks :
        (/\ dz_call.called
         /\ dz_call.method = "centroid"
         /\ SymmetricAbout(p)
         /\ ~AllZero(dz_membership))
            => dz_call.out = p

-----------------------------------------------------------------------------
(* The plant as a state machine: update, add_disturbance,                  *)
(* set_ambient_temp and reset                                              *)

\* Most calls made on one plant.
MaxPlantCalls == 4

\* What the plant is constructed with and called with.
PlantAmbients     == {Fx(30), Fx(10)}
PlantPowers       == {Fx(0), Fx(50)}
PlantDts          == {TimeLit(1, 2), TimeLit(1, 1)}
PlantDisturbances == {Fx(3)}
PlantResets       == {Fx(20), Fx(24)}

\* HVACSystem(initial_temp=20.0, ambient_temp=..., time_constant=5.0,
\*            gain=0.01)
InitPlant ==
    /\ temperature = Fx(20)
    /\ ambient_temp \in PlantAmbients
    /\ time_constant = Fx(5)
    /\ gain = Frac(1, 100)
    /\ plant_history = InitialPlantHistory(Fx(20))
    /\ plant_log = <<>>
    /\ EngineIdle /\ CtrlIdle /\ DzIdle /\ MfIdle /\ PidIdle /\ SimIdle

\* The entry of plant_log for a call: what was called, with what, and what
\* the plant held on entry.
PlantCall(op, arg, dt) ==
    [op |-> op, arg |-> arg, dt |-> dt, before |-> temperature,
     params |-> <<ambient_temp, time_constant, gain>>]

\* system.update(power, dt)
Update(power, dt) ==
    /\ Len(plant_log) < MaxPlantCalls
    /\ temperature' = update(temperature, ambient_temp, time_constant, gain,
                             power, dt)
    /\ plant_history' =
          [temperature |-> Append(plant_history.temperature, temperature'),
           power       |-> Append(plant_history.power, power),
           time        |-> Append(plant_history.time,
                                  FAdd(Last(plant_history.time), dt))]
    /\ plant_log' = Append(plant_log, PlantCall("update", power, dt))
    /\ UNCHANGED <<plantParams, engineVars, ctrlVars, dzVars, mfVars, pidVars,
                   simVars>>

\* system.add_disturbance(delta_temp)
AddDisturbance(delta_temp) ==
    /\ Len(plant_log) < MaxPlantCalls
    /\ temperature' = add_disturbance(temperature, delta_temp)
    /\ plant_log' = Append(plant_log, PlantCall("add_disturbance", delta_temp, 0))
    /\ UNCHANGED <<plantParams, plant_history, engineVars, ctrlVars, dzVars, mfVars,
                   pidVars, simVars>>

\* system.set_ambient_temp(new_ambient)
SetAmbientTemp(new_ambient) ==
    /\ Len(plant_log) < MaxPlantCalls
    /\ ambient_temp' = new_ambient
    /\ plant_log' = Append(plant_log, PlantCall("set_ambient_temp", new_ambient, 0))
    /\ UNCHANGED <<temperature, time_constant, gain, plant_history, engineVars,
                   ctrlVars, dzVars, mfVars, pidVars, simVars>>

\* system.reset(initial_temp)
Reset(initial_temp) ==
    /\ Len(plant_log) < MaxPlantCalls
    /\ temperature' = initial_temp
    /\ plant_history' = InitialPlantHistory(initial_temp)
    /\ plant_log' = Append(plant_log, PlantCall("reset", initial_temp, 0))
    /\ UNCHANGED <<plantParams, engineVars, ctrlVars, dzVars, mfVars, pidVars,
                   simVars>>

NextPlant ==
    \/ \E power \in PlantPowers, dt \in PlantDts : Update(power, dt)
    \/ \E delta \in PlantDisturbances : AddDisturbance(delta)
    \/ \E a \in PlantAmbients : SetAmbientTemp(a)
    \/ \E t0 \in PlantResets : Reset(t0)

SpecPlant == InitPlant /\ [][NextPlant]_vars

\* C15: after a call update(power, dt) the temperature is
\* T + (-(T - T_ambient) / time_constant + gain * power) * dt for the T the
\* plant held on entry, and the three parameters are those on entry; when
\* the call before it was reset(T0) and the power is 0, the temperature is
\* T0 - (T0 - T_ambient) / time_constant * dt.
C15_UpdateLaw ==
    (plant_log # <<>> /\ Last(plant_log).op = "update") =>
        LET call == Last(plant_log)
            T    == call.before
        IN  /\ temperature =
                  T + Mul(-Div(T - ambient_temp, time_constant)
                          + Mul(gain, call.arg), ToFx(call.dt))
            /\ <<ambient_temp, time_constant, gain>> = call.params
            /\ (/\ Len(plant_log) >= 2
                /\ plant_log[Len(plant_log) - 1].op = "reset"
                /\ call.arg = 0)
                  => LET T0 == plant_log[Len(plant_log) - 1].arg
                     IN  temperature =
                            T0 + Mul(-Div(T0 - ambient_temp, time_constant),
                                     ToFx(call.dt))

\* C15 witness: an update with power, a disturbance, a reset to another
\* temperature than the initial one and an update with power 0.
C15_Witness ==
    /\ Len(plant_log) = 4
    /\ plant_log[1].op = "update" /\ plant_log[1].arg > 0
    /\ plant_log[2].op = "add_disturbance"
    /\ plant_log[3].op = "reset" /\ plant_log[3].arg = Fx(24)
    /\ plant_log[4].op = "update" /\ plant_log[4].arg = 0
    /\ temperature # Fx(24)

-----------------------------------------------------------------------------
(* Claims about the loop of simulate_control                               *)

\* simulate_control run to its end: a call that can take a step takes it.
\* The controllers are those whose compute is a few arithmetic steps; that
\* compute of the FuzzyController returns is seen in SpecCtrl.
InitSimFair == InitSim /\ controller # "FuzzyController"

SpecSimFair == InitSimFair /\ [][NextSim]_vars /\ WF_vars(NextSim)

\* A pass of the loop either leaves the loop or moves the time forward.
LoopProgress ==
    sim_pc = "loop" => (sim_pc' # "loop" \/ sim_time' > sim_time)

\* The compute calls the controller of the run has completed.
ControllerSteps ==
    IF ControlStep(sim_impl, controller) = "pid" THEN Len(pid_history.outputs)
    ELSE IF ControlStep(sim_impl, controller) = "fuzzy" THEN Len(history.outputs)
    ELSE Len(powers)

\* The recorded times start at 0, each is the one before plus dt, and none
\* is after the duration; the controller and the plant have been stepped
\* once per recorded sample; a returned run has left out no time up to the
\* duration.
TimeGrid ==
    /\ times # <<>> => times[1] = 0
    /\ \A i \in DOMAIN times :
          /\ times[i] <= duration
          /\ i > 1 => times[i] = FAdd(times[i - 1], sim_dt)
    /\ ControllerSteps = Len(times)
    /\ Len(plant_history.temperature) = Len(times) + 1
    /\ Len(temperatures) = Len(times)
    /\ Len(powers) = Len(times)
    /\ Len(errors) = Len(times)
    /\ sim_pc = "returned" =>
          /\ times # <<>>
          /\ FAdd(Last(times), sim_dt) > duration

\* C16: every call of simulate_control ends, every pass of its loop moves
\* the time forward, and at every moment the recorded times are 0, dt,
\* 2 dt, ... up to the duration with one step of the controller and of the
\* plant for each.
C16_TerminatesOnTimeGrid ==
    /\ []TimeGrid
    /\ [][LoopProgress]_vars
    /\ <>(sim_pc \in {"returned", "raised"})

\* C16 witness: a returned run of several samples whose last sample is at
\* the duration itself.
C16_Witness ==
    /\ sim_pc = "returned"
    /\ Len(times) >= 3
    /\ Last(times) = duration
    /\ ControlStep(sim_impl, controller) = "pid"
    /\ Len(pid_history.outputs) = Len(times)

\* C19: the final sample simulate_control records has a time at or after
\* the duration.
C19_FinalSampleAtOrAfterDuration ==
    sim_pc = "returned" => Last(times) >= duration

\* The temperature the plant holds when pass i of the loop reads it: the
\* temperature the plant had after the pass before, with the disturbance
\* scheduled for the time of the pass added.
ReadTemperature(i) ==
    LET keys   == {k \in DOMAIN disturbances : k = times[i]}
        before == plant_history.temperature[i]
    IN  IF keys # {}
        THEN before + disturbances[CHOOSE k \in keys : TRUE]
        ELSE before

\* What the controller of the run was handed and gave back in its i-th
\* compute, as its own history holds it.
ControllerSaw(i, temp, error, power) ==
    CASE ControlStep(sim_impl, controller) = "pid" ->
              /\ pid_history.errors[i] = error
              /\ pid_history.outputs[i] = power
      [] ControlStep(sim_impl, controller) = "fuzzy" ->
              /\ history.inputs[i] = ("Temperatura" :> temp @@ "Error" :> error)
              /\ history.outputs[i] = power
      [] OTHER -> TRUE

\* Pass i of the loop, read from what it left behind.
PassInOrder(i) ==
    /\ times[i] = IF i = 1 THEN 0 ELSE FAdd(times[i - 1], sim_dt)
    /\ temperatures[i] = ReadTemperature(i)
    /\ errors[i] = setpoint - ReadTemperature(i)
    /\ ControllerSaw(i, ReadTemperature(i), errors[i], powers[i])
    /\ plant_history.power[i + 1] = powers[i]
    /\ plant_history.temperature[i + 1] =
          update(ReadTemperature(i), ambient_temp, time_constant, gain,
                 powers[i], sim_dt)

\* C18: every pass of the loop of simulate_control applies the disturbance
\* due at the current time first, computes error = setpoint - temperature
\* from the temperature after the disturbance, calls the controller once
\* with it, advances the plant once with the power returned, appends the
\* sample (the time before the increment, the temperature the error was
\* computed from) and then increments the time.
C18_IterationOrder ==
    /\ \A i \in DOMAIN times : PassInOrder(i)
    /\ ControllerSteps = Len(times)
    /\ Len(plant_history.temperature) = Len(times) + 1
    /\ (sim_pc = "loop" /\ times # <<>>) =>
          /\ sim_time = FAdd(Last(times), sim_dt)
          /\ temperature = Last(plant_history.temperature)

\* C18 witness: a returned run in which a disturbance was applied in the
\* second pass, to a temperature the first pass had moved, and the
\* controller was stepped with the error after the disturbance.
C18_Witness ==
    /\ sim_pc = "returned"
    /\ Len(times) >= 3
    /\ ControlStep(sim_impl, controller) = "pid"
    /\ \E a \in {applied[j] : j \in DOMAIN applied} :
          /\ a.time = times[2]
          /\ a.delta # 0
          /\ temperatures[2] = plant_history.temperature[2] + a.delta
          /\ plant_history.temperature[2] # plant_history.temperature[1]
          /\ pid_history.errors[2] = setpoint - temperatures[2]

-----------------------------------------------------------------------------
(* Claims about the history of the FuzzyController                         *)

\* The last compute returned what the control law gives for its crisp
\* inputs on the variables, rules and methods of the controller: nothing
\* of the history enters it.
OutputFromConfiguration ==
    fc_call.called =>
        fc_call.out = FuzzyController_compute(input_variables, output_variable,
                          rules, implication_method, defuzzification_method,
                          fc_call.crisp_inputs)

\* Two computes on the same crisp inputs, whatever computes and
\* reset_history calls made the history each of them met.
SameInputsSameOutput ==
    (fc_call.called /\ fc_call'.called
        /\ fc_call'.crisp_inputs = fc_call.crisp_inputs)
    => fc_call'.out = fc_call.out

\* C17: the history of a FuzzyController never influences compute: on the
\* same variables, rules and defuzzification method, compute returns the
\* same output for the same crisp inputs whatever the history holds after
\* any sequence of compute and reset_history calls.
C17_HistoryNeverConsulted ==
    /\ []OutputFromConfiguration
    /\ [][SameInputsSameOutput]_vars

\* C17 witness: a compute that returned on a controller whose history
\* already held an earlier compute with other inputs and another output.
C17_Witness ==
    /\ fc_call.called
    /\ fc_call.out.exc = "none"
    /\ Len(history.outputs) = 2
    /\ history.inputs[2] = fc_call.crisp_inputs
    /\ history.outputs[2] = fc_call.out.val
    /\ history.inputs[1] # history.inputs[2]
    /\ history.outputs[1] # history.outputs[2]

-----------------------------------------------------------------------------
(* Claims about the aggregated curve                                       *)

\* The firing strength of rule j of the last inference call.
StrengthOf(j) ==
    evaluate_rule(inf_call.rules[j], inf_call.input_memberships).val

\* shape(x) of rule j at grid point i, cut by the strength of the rule
\* under the implication method of the engine.
CutShape(j, i) ==
    LET ovar  == inf_call.output_variable
        shape == evaluate(ovar.terms[inf_call.rules[j].consequent[2]],
                          get_universe(ovar)[i]).val
    IN  IF implication_method = "product" THEN Mul(shape, StrengthOf(j))
        ELSE IF shape <= StrengthOf(j) THEN shape ELSE StrengthOf(j)

\* The greatest cut shape over the fired rules at grid point i, 0 when no
\* rule fired.
MaxOverFired(i) ==
    LET F    == Fired(inf_call.rules, inf_call.input_memberships)
        cuts == {CutShape(j, i) : j \in F}
    IN  IF F = {} THEN 0
        ELSE CHOOSE c \in cuts : \A d \in cuts : c >= d

\* The rules of the library with firing strength 0 on the memberships of
\* the last inference call.
ZeroStrength ==
    {r \in RuleLib :
        evaluate_rule(r, inf_call.input_memberships) = Ok(0)}

\* The rule list with the rules in `drop` (positions) left out.
RECURSIVE Without(_, _, _)
Without(rs, drop, k) ==
    IF k > Len(rs) THEN <<>>
    ELSE (IF k \in drop THEN <<>> ELSE <<rs[k]>>) \o Without(rs, drop, k + 1)

\* The rule list with rule r put in before position k.
InsertAt(rs, r, k) ==
    SubSeq(rs, 1, k - 1) \o <<r>> \o SubSeq(rs, k, Len(rs))

\* C21: the curve inference returns is, at every grid point of the output
\* universe, the maximum over the rules with firing strength > 0 of
\* min(shape(x), s) under "minimum" or shape(x)*s under "product", and 0
\* when no rule fires; putting in or leaving out rules of firing strength 0
\* never changes the curve.
C21_MaxOverFiredRules ==
    (inf_call.called /\ inf_call.out.exc = "none") =>
        /\ DOMAIN inf_call.out.val
              = DOMAIN get_universe(inf_call.output_variable)
        /\ \A i \in DOMAIN inf_call.out.val :
              inf_call.out.val[i] = MaxOverFired(i)
        /\ \A drop \in SUBSET {j \in DOMAIN inf_call.rules :
                                  inf_call.rules[j] \in ZeroStrength} :
              inference(Without(inf_call.rules, drop, 1), implication_method,
                        inf_call.input_memberships, inf_call.output_variable)
                 = inf_call.out
        /\ \A r \in ZeroStrength : \A k \in 1..(Len(inf_call.rules) + 1) :
              inference(InsertAt(inf_call.rules, r, k), implication_method,
                        inf_call.input_memberships, inf_call.output_variable)
                 = inf_call.out

\* C21 witness: under "product", a returned curve of two fired rules of
\* different consequents with a rule of strength 0 between them in the
\* list.
C21_Witness ==
    /\ inf_call.called
    /\ inf_call.out.exc = "none"
    /\ implication_method = "product"
    /\ Len(inf_call.rules) = 3
    /\ inf_call.rules[2] \in ZeroStrength
    /\ Fired(inf_call.rules, inf_call.input_memberships) = {1, 3}
    /\ inf_call.rules[1].consequent # inf_call.rules[3].consequent
    /\ \E i \in DOMAIN inf_call.out.val :
          /\ inf_call.out.val[i] > 0
          /\ inf_call.out.val[i] < SCALE

\* C21 witness: a returned curve when no rule of a non-empty list fired.
C21_WitnessNoneFired ==
    /\ inf_call.called
    /\ inf_call.out.exc = "none"
    /\ inf_call.rules # <<>>
    /\ Fired(inf_call.rules, inf_call.input_memberships) = {}
    /\ \A i \in DOMAIN inf_call.out.val : inf_call.out.val[i] = 0

-----------------------------------------------------------------------------
(* Claims about the strategies of the Defuzzifier                          *)

\* membership[0] + ... + membership[i], read off the curve.
RECURSIVE RunningSum(_, _)
RunningSum(membership, i) ==
    IF i = 0 THEN 0 ELSE RunningSum(membership, i - 1) + membership[i]

\* The indices at which the running sum has reached half of the total.
HalfReached(membership) ==
    {i \in DOMAIN membership :
        2 * RunningSum(membership, i) >= RunningSum(membership, Len(membership))}

\* C22: on a membership curve of positive total sum, bisector returns
\* universe[i] for the smallest index i at which the running sum
\* membership[0] + ... + membership[i] is at least half of the total sum.
C22_BisectorCumulativeSum ==
    (dz_call.called /\ dz_call.method = "bisector"
        /\ RunningSum(dz_membership, Len(dz_membership)) > 0) =>
        /\ HalfReached(dz_membership) # {}
        /\ dz_call.out = dz_universe[SetMin(HalfReached(dz_membership))]

\* C22 witness: bisector on a curve whose running sum is exactly half of
\* the total at an inner index, which is the index returned, later points
\* carrying the other half.
C22_Witness ==
    /\ dz_call.called
    /\ dz_call.method = "bisector"
    /\ Len(dz_universe) >= 3
    /\ \E i \in DOMAIN dz_membership :
          /\ 1 < i /\ i < Len(dz_membership)
          /\ dz_membership[1] > 0
          /\ dz_membership[i] > 0
          /\ 2 * RunningSum(dz_membership, i)
                = RunningSum(dz_membership, Len(dz_membership))
          /\ dz_call.out = dz_universe[i]
          /\ dz_call.out # Midpoint(dz_universe)

\* The indices of the universe points whose membership is the greatest of
\* the curve.
MaxPoints == {i \in DOMAIN dz_membership :
         \A j \in DOMAIN dz_membership : dz_membership[j] <= dz_membership[i]}

\* The sum of the universe points of MaxPoints.
RECURSIVE SumOver(_, _)
SumOver(universe, S) ==
    IF S = {} THEN 0
    ELSE LET i == CHOOSE k \in S : TRUE
         IN  universe[i] + SumOver(universe, S \ {i})

\* C23: on a membership curve whose maximum is positive, with M the
\* universe points whose membership equals the maximum,
\* smallest_of_maximum returns the least point of MaxPoints, largest_of_maximum
\* the greatest, and mean_of_maximum the arithmetic mean of all points of
\* MaxPoints (to the resolution of the arithmetic).
C23_MaximaOverAllTies ==
    (dz_call.called /\ \E i \in DOMAIN dz_membership : dz_membership[i] > 0) =>
        /\ dz_call.method = "smallest_of_maximum" =>
              /\ \E i \in MaxPoints : dz_call.out = dz_universe[i]
              /\ \A i \in MaxPoints : dz_call.out <= dz_universe[i]
        /\ dz_call.method = "largest_of_maximum" =>
              /\ \E i \in MaxPoints : dz_call.out = dz_universe[i]
              /\ \A i \in MaxPoints : dz_call.out >= dz_universe[i]
        /\ dz_call.method = "mean_of_maximum" =>
              2 * Abs(Cardinality(MaxPoints) * dz_call.out - SumOver(dz_universe, MaxPoints))
                 <= Cardinality(MaxPoints)

\* C23 witness: mean_of_maximum on a curve whose maximum is attained at
\* three points that are not next to each other, the mean being none of
\* them and not the mean of the first run.
C23_Witness ==
    /\ dz_call.called
    /\ dz_call.method = "mean_of_maximum"
    /\ dz_universe = <<Fx(0), Fx(1), Fx(5)>>
    /\ dz_membership = <<Frac(1, 2), Frac(1, 4), Frac(1, 2)>>
    /\ MaxPoints = {1, 3}
    /\ dz_call.out = Frac(5, 2)

-----------------------------------------------------------------------------
(* Claims about the steps of the PID controller                            *)

\* A value held between two limits.
Clamp(x, lo, hi) == IF x < lo THEN lo ELSE IF x > hi THEN hi ELSE x

\* The bound of the accumulator: output_max / Ki, 1e6 when Ki is 0.
IntegralBound ==
    IF Ki = 0 THEN 1000000 * SCALE
    ELSE RoundDiv(output_limits[2] * SCALE, Ki)

\* The accumulator after error * dt is added to i0 and the sum clamped.
Accumulated(i0, error, dt) ==
    Clamp(i0 + RoundDiv(error * dt, SCALE), -IntegralBound, IntegralBound)

\* clamp(Kp*error + Ki*integ + Kd*(error - prev)/dt)
PidLaw(integ, prev, error, dt) ==
    Clamp(RoundDiv(Kp * error, SCALE) + RoundDiv(Ki * integ, SCALE)
             + RoundDiv(Kd * RoundDiv((error - prev) * SCALE, dt), SCALE),
          output_limits[1], output_limits[2])

\* A step that is a compute call: the history grew by one entry.
IsComputeStep ==
    Len(pid_history'.outputs) = Len(pid_history.outputs) + 1

\* A compute call returns the law on the accumulator it has just updated
\* and on the previous_error it found, and leaves the error as
\* previous_error.
ComputeStepLaw ==
    IsComputeStep =>
        LET error == pid_call'.error
            dt    == pid_call'.dt
        IN  /\ integral' = Accumulated(integral, error, dt)
            /\ pid_call'.out = PidLaw(integral', previous_error, error, dt)
            /\ previous_error' = error
            /\ Last(pid_history'.errors) = error
            /\ Last(pid_history'.outputs) = pid_call'.out

\* The first compute after construction or reset found previous_error 0:
\* its derivative term is Kd * error / dt.
FirstCallDerivative ==
    /\ pid_history.errors = <<>> => previous_error = 0
    /\ (pid_call.called /\ Len(pid_history.outputs) = 1) =>
          pid_call.out = PidLaw(Accumulated(0, pid_call.error, pid_call.dt),
                                0, pid_call.error, pid_call.dt)

\* C24: every compute(error, dt) returns
\* clamp(Kp*error + Ki*integral' + Kd*(error - previous_error)/dt) with
\* integral' the accumulator after error*dt is added and clamped, and then
\* sets previous_error to error; on the first call after construction or
\* reset previous_error is 0 and the derivative term Kd*error/dt is not
\* skipped.
C24_ComputeLaw ==
    /\ []FirstCallDerivative
    /\ [][ComputeStepLaw]_vars

\* C24 witness: the first compute of a controller, with Kd > 0 and an error
\* other than 0, returned a value inside the limits that is the law with
\* the derivative term and not the law without it.
C24_Witness ==
    /\ pid_call.called
    /\ Len(pid_history.outputs) = 1
    /\ Kd > 0
    /\ pid_call.error # 0
    /\ output_limits[1] < pid_call.out /\ pid_call.out < output_limits[2]
    /\ pid_call.out # PidLaw(integral, pid_call.error, pid_call.error,
                             pid_call.dt)
    /\ previous_error = pid_call.error

\* The controller as __init__ leaves it, gains and limits apart.
FreshState ==
    /\ integral = 0
    /\ previous_error = 0
    /\ previous_time = "None"
    /\ pid_history = EmptyPidHistory

\* The outputs a freshly constructed controller of the same gains and
\* limits returns for the errors es with the time steps dts, from call k
\* on with the accumulator integ and the last error prev.
RECURSIVE FreshOutputs(_, _, _, _, _)
FreshOutputs(es, dts, k, integ, prev) ==
    IF k > Len(es) THEN <<>>
    ELSE LET i2 == PID_integral(integ, es[k], dts[k], Ki, output_limits)
         IN  <<PID_output(Kp, Ki, Kd, output_limits, i2, prev, es[k], dts[k])>>
                \o FreshOutputs(es, dts, k + 1, i2, es[k])

\* The accumulator of that fresh controller after those calls.
RECURSIVE FreshIntegral(_, _, _, _)
FreshIntegral(es, dts, k, integ) ==
    IF k > Len(es) THEN integ
    ELSE FreshIntegral(es, dts, k + 1,
                       PID_integral(integ, es[k], dts[k], Ki, output_limits))

\* The computes since construction or the last reset gave what a fresh
\* controller gives for the same errors, whatever came before the reset.
AsFresh ==
    /\ pid_history.errors = <<>> => FreshState
    /\ pid_history.errors # <<>> =>
          \E dts \in [DOMAIN pid_history.errors -> PidDts] :
              /\ dts[Len(dts)] = pid_call.dt
              /\ pid_history.outputs
                    = FreshOutputs(pid_history.errors, dts, 1, 0, 0)
              /\ integral = FreshIntegral(pid_history.errors, dts, 1, 0)
              /\ previous_error = Last(pid_history.errors)

\* A step that is a reset of a controller that has computed.
ResetStepKeepsGains ==
    (pid_history.errors # <<>> /\ pid_history'.errors = <<>>) =>
        /\ FreshState'
        /\ UNCHANGED pidParams

\* C25: after any sequence of compute calls reset sets integral and
\* previous_error to 0 and empties the history, and every sequence of
\* compute calls that follows returns what a freshly constructed
\* controller of the same gains and output limits returns.
C25_ResetAsFresh ==
    /\ []AsFresh
    /\ [][ResetStepKeepsGains]_vars

\* C25 witness: a reset after a compute that had moved the accumulator and
\* the previous error: the controller is as constructed.
C25_Witness ==
    /\ pid_call.called
    /\ pid_call.error # 0
    /\ Ki > 0
    /\ pid_history = EmptyPidHistory
    /\ integral = 0
    /\ previous_error = 0

-----------------------------------------------------------------------------
(* calculate_performance_metrics called on its own                         *)

\* Temperatures of a result: outside the band of 22 on either side, on its
\* two edges and at the setpoint.
SampleTemps == {Fx(21), Frac(2156, 100), Fx(22), Frac(2244, 100), Fx(23)}

\* Setpoints of a result; the band of a negative setpoint is empty.
SampleSetpoints == {Fx(22), Fx(-22)}

\* Number of samples of a result.
SeriesLen == 4

\* The results dictionaries the metrics are taken of: samples every 0.5.
SampleResults ==
    { [called |-> TRUE, exc |-> "none",
       time |-> [i \in 1..SeriesLen |-> (i - 1) * (TimeUnit \div 2)],
       temperature |-> temp,
       power |-> [i \in 1..SeriesLen |-> 0],
       error |-> [i \in 1..SeriesLen |-> sp - temp[i]],
       setpoint |-> sp] :
          temp \in [1..SeriesLen -> SampleTemps], sp \in SampleSetpoints }

\* A results dictionary at hand, no metrics taken of it yet.
InitMetrics ==
    /\ sim_out \in SampleResults
    /\ sim_pc = "returned"
    /\ sim_impl = "simulation" /\ controller = "object"
    /\ setpoint = sim_out.setpoint
    /\ duration = Last(sim_out.time)
    /\ sim_dt = TimeUnit \div 2
    /\ disturbances = <<>>
    /\ times = sim_out.time
    /\ temperatures = sim_out.temperature
    /\ powers = sim_out.power
    /\ errors = sim_out.error
    /\ sim_time = FAdd(duration, sim_dt)
    /\ applied = <<>>
    /\ metrics = NoCall
    /\ EngineIdle /\ CtrlIdle /\ DzIdle /\ MfIdle /\ PidIdle /\ PlantIdle

SpecMetrics == InitMetrics /\ [][CalcMetrics]_vars

\* The samples of the result inside the band
\* |temperature - setpoint| <= 0.02 * setpoint.
InBand ==
    {i \in DOMAIN sim_out.temperature :
        100 * Abs(sim_out.temperature[i] - sim_out.setpoint)
           <= 2 * sim_out.setpoint}

\* The first sample inside the band.
FirstInBand == CHOOSE i \in InBand : \A j \in InBand : i <= j

C26_WitnessSettled ==
    /\ metrics.called
    /\ InBand = {2, 3, 4}
    /\ sim_out.temperature[2] = Frac(2156, 100)
    /\ metrics.settling_time = Some(sim_out.time[2])

-----------------------------------------------------------------------------
(* Claims about the result of simulate_control                             *)

\* power[k] of the result is what the controller of the run computed from
\* error[k]: the output the PID controller holds against that error in
\* its own history, the control law of the FuzzyController on the
\* recorded temperature and error, or the constant of the other kind.
PowerFromError(k) ==
    CASE ControlStep(sim_impl, controller) = "pid" ->
            /\ pid_history.errors[k] = sim_out.error[k]
            /\ pid_history.outputs[k] = sim_out.power[k]
      [] ControlStep(sim_impl, controller) = "fuzzy" ->
            sim_out.power[k] =
                FuzzyController_compute(input_variables, output_variable, rules,
                    implication_method, defuzzification_method,
                    "Temperatura" :> sim_out.temperature[k]
                       @@ "Error" :> sim_out.error[k]).val
      [] OTHER -> sim_out.power[k] = ThermostatPower

\* As a pass of a run of the PID controller ends, the power it appended is
\* the PID law on the error it appended, the error of the pass before and
\* the accumulator as the pass left it.
LastPassPower ==
    (ControlStep(sim_impl, controller) = "pid" /\ powers # <<>>) =>
        Last(powers) =
            PID_output(Kp, Ki, Kd, output_limits, integral,
                       IF Len(errors) = 1 THEN 0 ELSE errors[Len(errors) - 1],
                       Last(errors), ToFx(sim_dt))

\* C27: in every result simulate_control returns the four series have one
\* length, the number of passes of the loop; error[k] is
\* setpoint - temperature[k] and power[k] the output the controller
\* computed from that error, for every k; the temperature the last update
\* left in the plant is not part of the temperature series.
C27_ResultSeries ==
    /\ LastPassPower
    /\ (sim_pc = "returned" /\ sim_out.called) =>
        LET n == Len(sim_out.time)
        IN  /\ sim_out.exc = "none"
            /\ Len(sim_out.temperature) = n
            /\ Len(sim_out.power) = n
            /\ Len(sim_out.error) = n
            /\ Len(plant_history.power) = n + 1
            /\ Len(plant_history.temperature) = n + 1
            /\ \A k \in 1..n :
                  /\ sim_out.error[k] = sim_out.setpoint - sim_out.temperature[k]
                  /\ PowerFromError(k)
                  /\ sim_out.temperature[k] = ReadTemperature(k)
            /\ temperature = plant_history.temperature[n + 1]
            /\ sim_out.setpoint = setpoint

\* C27 witness: a returned run of the PID controller over several passes
\* whose plant ended at a temperature other than the last one recorded.
C27_Witness ==
    /\ sim_pc = "returned"
    /\ sim_out.called
    /\ ControlStep(sim_impl, controller) = "pid"
    /\ Len(sim_out.time) >= 3
    /\ Len(sim_out.temperature) = Len(sim_out.time)
    /\ temperature # Last(sim_out.temperature)
    /\ \E k \in DOMAIN sim_out.power : sim_out.power[k] > 0

-----------------------------------------------------------------------------
(* The strategies on curves that lean on the ends of the universe          *)

\* Increasing grids whose end points are no whole numbers.
EdgeGrids ==
    { <<Fx(0), Fx(1), Frac(25, 2)>>,
      <<Frac(-25, 2), Frac(-1, 2)>> }

\* Degrees in [0, 1], one third among them.
EdgeDegrees == {0, Frac(1, 3), Frac(1, 2), SCALE}

InitEdge ==
    /\ dz_universe \in EdgeGrids
    /\ dz_membership \in [DOMAIN dz_universe -> EdgeDegrees]
    /\ dz_call = NoCall
    /\ EngineIdle /\ CtrlIdle /\ MfIdle /\ PidIdle /\ PlantIdle /\ SimIdle

SpecEdge == InitEdge /\ [][NextDefuzz]_vars

\* C28: on an increasing grid and a curve with values in [0, 1] each of
\* the five strategies returns a value in [universe[0], universe[-1]], and
\* smallest_of_maximum <= mean_of_maximum <= largest_of_maximum.
C28_OutputWithinUniverse ==
    /\ dz_call.called =>
          /\ dz_universe[1] <= dz_call.out
          /\ dz_call.out <= dz_universe[Len(dz_universe)]
    /\ smallest_of_maximum(dz_universe, dz_membership)
          <= mean_of_maximum(dz_universe, dz_membership)
    /\ mean_of_maximum(dz_universe, dz_membership)
          <= largest_of_maximum(dz_universe, dz_membership)

-----------------------------------------------------------------------------
(* Claims about the three lists of the history                             *)

\* The three lists have one length.
ListsAligned ==
    /\ Len(history.inputs) = Len(history.outputs)
    /\ Len(history.memberships) = Len(history.outputs)

\* A step changes the history only by one entry in each list, those of a
\* compute that returned, or by emptying it; a compute that failed leaves
\* it as it was, and one that returned has added its entry.
HistoryStep ==
    /\ history' # history =>
          \/ /\ fc_call'.called /\ fc_call'.out.exc = "none"
             /\ history'.inputs = Append(history.inputs, fc_call'.crisp_inputs)
             /\ history'.outputs = Append(history.outputs, fc_call'.out.val)
             /\ history'.memberships
                   = Append(history.memberships, fc_call'.out.input_memberships)
          \/ /\ history' = EmptyHistory
             /\ fc_call' = fc_call
    /\ (fc_call' # fc_call /\ fc_call'.out.exc # "none") => history' = history
    /\ (fc_call' # fc_call /\ fc_call'.out.exc = "none") =>
          Len(history'.outputs) = Len(history.outputs) + 1

\* C29: the inputs, outputs and memberships lists of a FuzzyController
\* always have one length, the number of compute calls that returned since
\* construction or the last reset_history; a compute that fails, on an
\* input name without a variable or on a rule whose variable is not
\* supplied, appends nothing.
C29_HistoryCountsReturns ==
    /\ []ListsAligned
    /\ [][HistoryStep]_vars

\* C29 witness: a compute that returned, then one that failed on an input
\* name no variable is registered under: the history holds the one entry.
C29_Witness ==
    /\ fc_call.called
    /\ fc_call.out.exc = "ValueError"
    /\ "Humedad" \in DOMAIN fc_call.crisp_inputs
    /\ Len(history.inputs) = 1
    /\ Len(history.outputs) = 1
    /\ Len(history.memberships) = 1

\* C29 witness: a compute that failed in the engine, on a rule whose
\* variable was not supplied, after one that returned.
C29_WitnessRuleFails ==
    /\ fc_call.called
    /\ fc_call.out.exc # "none"
    /\ fc_call.crisp_inputs = ("Temperatura" :> Fx(23))
    /\ Len(history.inputs) = 1
    /\ Len(history.outputs) = 1
    /\ Len(history.memberships) = 1

-----------------------------------------------------------------------------
(* simulate_control run twice on one controller and one plant              *)

\* The short runs, each followed by a second call on the same instances.
InitRerun == InitSim /\ duration = TimeLit(1, 1)

NextRerun ==
    \/ SimCall
    \/ SimIteration
    \/ SimReturn
    \/ SimAgain

SpecRerun == InitRerun /\ [][NextRerun]_vars

\* The second call is under way or has returned: the plant has been
\* stepped more often than the call has samples.
SecondRun ==
    /\ sim_pc \in {"loop", "returned"}
    /\ Len(plant_history.power) > Len(times) + 1

\* The number of passes of the first run.
FirstRunPasses == Len(plant_history.power) - 1 - Len(times)

\* The disturbance scheduled for time 0, 0 when there is none.
DisturbanceAtZero ==
    IF 0 \in DOMAIN disturbances THEN disturbances[0] ELSE 0

\* In the second run the first recorded temperature is the one the first
\* run left in the plant, plus the disturbance at time 0, and the history
\* of the controller holds the calls of both runs.
CarriedOver ==
    SecondRun =>
        /\ times # <<>> =>
              temperatures[1]
                 = plant_history.temperature[FirstRunPasses + 1] + DisturbanceAtZero
        /\ ControlStep(sim_impl, controller) = "pid" =>
              Len(pid_history.outputs) = FirstRunPasses + Len(times)
        /\ ControlStep(sim_impl, controller) = "fuzzy" =>
              Len(history.outputs) = FirstRunPasses + Len(times)
        /\ Len(plant_history.temperature) = FirstRunPasses + Len(times) + 1

\* The call itself changes nothing of the controller or the plant.
CallKeepsInstances ==
    (sim_pc = "returned" /\ sim_pc' = "loop") =>
        UNCHANGED <<temperature, plant_history, integral, previous_error,
                    pid_history, history>>

\* The first pass of the second run reads the temperature, the
\* accumulator and the previous error as the first run left them.
FirstPassOfSecondRun ==
    (SecondRun /\ times = <<>> /\ times' # <<>>) =>
        /\ temperatures'[1] = temperature + DisturbanceAtZero
        /\ ControlStep(sim_impl, controller) = "pid" =>
              /\ integral' = PID_integral(integral, errors'[1], ToFx(sim_dt),
                                          Ki, output_limits)
              /\ powers'[1] = PID_output(Kp, Ki, Kd, output_limits, integral',
                                         previous_error, errors'[1],
                                         ToFx(sim_dt))

\* C30: simulate_control never resets the controller or the plant it is
\* given: a second run on the same instances starts from the plant
\* temperature, the PID integral and the PID previous_error the first run
\* left (its first recorded temperature is the final plant temperature of
\* the first run, plus the disturbance at time 0 if there is one), and
\* the history of the controller keeps growing across the runs.
C30_SecondRunCarriesState ==
    /\ []CarriedOver
    /\ [][CallKeepsInstances]_vars
    /\ [][FirstPassOfSecondRun]_vars

\* C30 witness: the second run of the PID controller has returned; its
\* first temperature is not the 20 degrees the plant was constructed with,
\* its first power is not that of the first run, and the history of the
\* controller holds both runs.
C30_Witness ==
    /\ sim_pc = "returned"
    /\ SecondRun
    /\ ControlStep(sim_impl, controller) = "pid"
    /\ Len(times) >= 3
    /\ temperatures[1] # Fx(20)
    /\ Len(pid_history.outputs) = 2 * Len(times)
    /\ powers[1] = pid_history.outputs[Len(times) + 1]
    /\ powers[1] # pid_history.outputs[1]
    /\ sim_out.temperature = temperatures

====
